---------------------------- MODULE Spec2Model ----------------------------
(***************************************************************************)
(* Package Control search bot (src/src/worker.ts): the interaction handler *)
(* handleDiscordInteraction, the PackageService search it calls and the    *)
(* KV-backed session store, as a state machine.                            *)
(*                                                                         *)
(* A JavaScript string is a sequence of one-character strings, so that     *)
(* startsWith, lastIndexOf, split, parseInt and template literals are      *)
(* computed character by character as the code computes them.              *)
(***************************************************************************)
EXTENDS Integers, Sequences, FiniteSets, TLC

(***************************************************************************)
(* JavaScript values.  A value that may be undefined (or null) is a        *)
(* sequence of length at most one: <<>> is undefined, <<v>> is v.  A       *)
(* number that may be NaN is the same: <<>> is NaN, <<n>> is n.            *)
(***************************************************************************)
Undefined == <<>>
Some(v) == <<v>>
IsDefined(o) == o # <<>>
ValueOf(o) == o[1]

Null == <<>>

NaN == <<>>
Num(n) == <<n>>
IsNaN(v) == v = <<>>

(***************************************************************************)
(* String primitives.                                                      *)
(***************************************************************************)
UpperChars == <<"A","B","C","D","E","F","G","H","I","J","K","L","M",
                "N","O","P","Q","R","S","T","U","V","W","X","Y","Z">>
LowerChars == <<"a","b","c","d","e","f","g","h","i","j","k","l","m",
                "n","o","p","q","r","s","t","u","v","w","x","y","z">>
DigitChars == <<"0","1","2","3","4","5","6","7","8","9">>

IndexOfChar(c, chars) ==
  IF \E k \in 1..Len(chars) : chars[k] = c
    THEN CHOOSE k \in 1..Len(chars) : chars[k] = c
    ELSE 0

\* String.prototype.toLowerCase, one character
LowerChar(c) ==
  IF IndexOfChar(c, UpperChars) = 0 THEN c ELSE LowerChars[IndexOfChar(c, UpperChars)]

\* String.prototype.toLowerCase
toLowerCase(s) == [k \in 1..Len(s) |-> LowerChar(s[k])]

\* \w of a JavaScript regular expression
IsWordChar(c) ==
  \/ IndexOfChar(c, UpperChars) # 0
  \/ IndexOfChar(c, LowerChars) # 0
  \/ IndexOfChar(c, DigitChars) # 0
  \/ c = "_"

\* \s of a JavaScript regular expression, over the characters the model uses
IsSpaceChar(c) == c = " "

\* s.substring(from) with a 0-based from
substringFrom(s, from) ==
  IF from >= Len(s) THEN <<>> ELSE SubSeq(s, (IF from < 0 THEN 0 ELSE from) + 1, Len(s))

\* s.substring(from, to) with 0-based bounds; negative bounds count as 0
substring(s, from, to) ==
  LET f == IF from < 0 THEN 0 ELSE IF from > Len(s) THEN Len(s) ELSE from
      t == IF to < 0 THEN 0 ELSE IF to > Len(s) THEN Len(s) ELSE to
      lo == IF f < t THEN f ELSE t
      hi == IF f < t THEN t ELSE f
  IN SubSeq(s, lo + 1, hi)

\* s.startsWith(p)
startsWith(s, p) == Len(p) <= Len(s) /\ SubSeq(s, 1, Len(p)) = p

\* s.endsWith(p)
endsWith(s, p) == Len(p) <= Len(s) /\ SubSeq(s, Len(s) - Len(p) + 1, Len(s)) = p

\* s.indexOf(p), 0-based, -1 when p does not occur
indexOf(s, p) ==
  LET hits == {k \in 0..(Len(s) - Len(p)) : SubSeq(s, k + 1, k + Len(p)) = p}
  IN IF hits = {} THEN -1 ELSE CHOOSE k \in hits : \A j \in hits : k <= j

\* s.includes(p)
includes(s, p) == indexOf(s, p) # -1

\* s.lastIndexOf(c) for a one-character c, 0-based, -1 when c does not occur
lastIndexOf(s, c) ==
  LET hits == {k \in 1..Len(s) : s[k] = c}
  IN IF hits = {} THEN -1 ELSE (CHOOSE k \in hits : \A j \in hits : k >= j) - 1

\* s.replace(p, '') with a string pattern: the first occurrence is removed
replaceFirst(s, p) ==
  LET at == indexOf(s, p)
  IN IF at = -1 THEN s
     ELSE SubSeq(s, 1, at) \o SubSeq(s, at + Len(p) + 1, Len(s))

\* s.trim()
trim(s) ==
  LET keep == {k \in 1..Len(s) : ~IsSpaceChar(s[k])}
  IN IF keep = {} THEN <<>>
     ELSE SubSeq(s, CHOOSE k \in keep : \A j \in keep : k <= j,
                    CHOOSE k \in keep : \A j \in keep : k >= j)

\* s.split(c) for a one-character separator c
RECURSIVE split(_, _)
split(s, c) ==
  LET at == indexOf(s, <<c>>)
  IN IF at = -1 THEN <<s>>
     ELSE <<SubSeq(s, 1, at)>> \o split(SubSeq(s, at + 2, Len(s)), c)

\* the decimal digits of a natural number, as a template literal prints them
RECURSIVE NatToString(_)
NatToString(n) ==
  IF n < 10 THEN <<DigitChars[n + 1]>>
  ELSE NatToString(n \div 10) \o <<DigitChars[(n % 10) + 1]>>

\* `${n}` for an integer n
NumToString(n) == IF n < 0 THEN <<"-">> \o NatToString(-n) ELSE NatToString(n)

\* the longest run of decimal digits that starts s
RECURSIVE DigitRun(_)
DigitRun(s) ==
  IF s = <<>> \/ IndexOfChar(s[1], DigitChars) = 0 THEN <<>>
  ELSE <<s[1]>> \o DigitRun(Tail(s))

\* the number a non-empty run of decimal digits denotes
RECURSIVE DigitsValue(_)
DigitsValue(d) ==
  IF Len(d) = 1 THEN IndexOfChar(d[1], DigitChars) - 1
  ELSE 10 * DigitsValue(SubSeq(d, 1, Len(d) - 1)) + IndexOfChar(d[Len(d)], DigitChars) - 1

\* parseInt(s) for an s that may be undefined: leading white space, an
\* optional sign, then decimal digits; NaN when no digit stands there
parseInt(s) ==
  IF ~IsDefined(s) THEN NaN
  ELSE LET t == trim(ValueOf(s))
           neg == t # <<>> /\ t[1] = "-"
           body == IF t # <<>> /\ t[1] \in {"-", "+"} THEN Tail(t) ELSE t
           d == DigitRun(body)
       IN IF d = <<>> THEN NaN
          ELSE IF neg THEN Num(0 - DigitsValue(d)) ELSE Num(DigitsValue(d))

(***************************************************************************)
(* The catalog (ChannelData).  An Object.entries iteration is a sequence   *)
(* of <<repository, entries>> pairs.  An entry's author is kept as the     *)
(* list Array.isArray(author) ? author : [author] with the flag isArray;   *)
(* labels is undefined for an entry without a labels key (every Library).  *)
(* homepage, issues and last_modified are copied through to the embeds     *)
(* and decide nothing; they are left out.                                  *)
(***************************************************************************)
Package(name, description, authors, labels, releases) ==
  [name |-> name, description |-> description,
   author |-> [isArray |-> TRUE, items |-> authors],
   labels |-> labels, releases |-> releases]

Library(name, description, author, releases) ==
  [name |-> name, description |-> description,
   author |-> [isArray |-> FALSE, items |-> <<author>>],
   labels |-> Undefined, releases |-> releases]

Release(version, date) == [version |-> version, date |-> date]

ChannelData ==
  [packages_cache |-> <<
     <<<<"p","c">>, <<
        Package(<<"L","S","P">>, <<"l","s","p"," ","c","l","i","e","n","t">>, <<<<"t","o","m">>>>, Some(<<<<"l","s","p">>>>),
                <<Release(<<"1">>, 10), Release(<<"2">>, 20)>>),
        Package(<<"L","S","P","-","j","s","o","n">>, <<"j","s","o","n"," ","f","o","r"," ","l","s","p">>, <<<<"t","o","m">>, <<"A","n","n">>>>,
                Some(<<<<"l","s","p">>, <<"j","s","o","n">>>>), <<Release(<<"3">>, 30)>>),
        Package(<<"G","i","t">>, <<"g","i","t"," ","t","o","o","l","s">>, <<<<"A","n","n">>>>, Some(<<<<"v","c","s">>>>), <<>>),
        Package(<<"x","|","y">>, <<"l","s","p"," ","p","i","p","e","s">>, <<<<"j","o","n">>>>, Some(<<>>), <<>>),
        Package(<<>>, <<"l","s","p"," ","n","o","n","e">>, <<<<"j","o","n">>>>, Some(<<>>), <<>>) >> >>,
     <<<<"p","2">>, <<
        Package(<<"m","y","-","l","s","p">>, <<"m","o","r","e"," ","l","s","p">>, <<<<"k","i","r">>>>, Some(<<<<"l","s","p">>>>), <<>>),
        Package(<<"G","i","t","G","u","t","t","e","r">>, <<"g","i","t"," ","d","i","f","f"," ","m","a","r","k","s">>, <<<<"j","o","n">>>>, Undefined,
                <<Release(<<"5">>, 50), Release(<<"4">>, 40)>>) >> >> >>,
   libraries_cache |-> <<
     <<<<"p","c">>, <<
        Library(<<"l","s","p","_","u","t","i","l","s">>, <<"l","s","p"," ","h","e","l","p","e","r","s">>, <<"t","o","m">>, <<Release(<<"7">>, 70)>>),
        Library(<<"p","y","y","a","m","l">>, <<"y","a","m","l"," ","p","a","r","s","e","r">>, <<"k","i","r">>, <<>>) >> >> >>]

(***************************************************************************)
(* PackageService.parseSearchQuery                                         *)
(***************************************************************************)
\* the end (exclusive, 1-based) of the longest run of \w from position p
RECURSIVE WordRunEnd(_, _)
WordRunEnd(s, p) ==
  IF p > Len(s) \/ ~IsWordChar(s[p]) THEN p ELSE WordRunEnd(s, p + 1)

\* the end (exclusive, 1-based) of the longest run of \S from position p
RECURSIVE NonSpaceRunEnd(_, _)
NonSpaceRunEnd(s, p) ==
  IF p > Len(s) \/ IsSpaceChar(s[p]) THEN p ELSE NonSpaceRunEnd(s, p + 1)

\* whether /(\w+):(\S+)/ matches at the 1-based position p: the greedy \w+
\* must be followed by ':' and at least one non-space character
FilterMatchesAt(s, p) ==
  LET q == WordRunEnd(s, p)
  IN /\ q > p
     /\ q + 1 <= Len(s)
     /\ s[q] = ":"
     /\ ~IsSpaceChar(s[q + 1])

\* filterRegex.exec(query) from lastIndex (0-based): the leftmost match as
\* [at, filterType, filterValue, fullMatch, lastIndex], or undefined
filterRegexExec(query, lastIndex) ==
  LET cands == {p \in (lastIndex + 1)..Len(query) : FilterMatchesAt(query, p)}
  IN IF cands = {} THEN Undefined
     ELSE LET p == CHOOSE c \in cands : \A d \in cands : c <= d
              q == WordRunEnd(query, p)
              r == NonSpaceRunEnd(query, q + 1)
          IN Some([filterType |-> SubSeq(query, p, q - 1),
                   filterValue |-> SubSeq(query, q + 1, r - 1),
                   fullMatch |-> SubSeq(query, p, r - 1),
                   lastIndex |-> r - 1])

KeyAuthor == <<"a","u","t","h","o","r">>
KeyLabel == <<"l","a","b","e","l">>

\* a faulty switch: a filter that is already set is kept
SetFilterFirstWins(filters, filterType, filterValue) ==
  IF toLowerCase(filterType) = KeyAuthor /\ ~IsDefined(filters.author)
    THEN [filters EXCEPT !.author = Some(filterValue)]
  ELSE IF toLowerCase(filterType) = KeyLabel /\ ~IsDefined(filters.label)
    THEN [filters EXCEPT !.label = Some(filterValue)]
  ELSE filters

\* the if / else if of the loop body: only author and label are kept
SetFilter(filters, filterType, filterValue) ==
  IF toLowerCase(filterType) = KeyAuthor
    THEN [filters EXCEPT !.author = Some(filterValue)]
  ELSE IF toLowerCase(filterType) = KeyLabel
    THEN [filters EXCEPT !.label = Some(filterValue)]
  ELSE filters

\* the while loop of parseSearchQuery: ParseLoop tests the condition with
\* the next match, ParseMatch is the body for a match m
RECURSIVE ParseLoop(_, _, _, _)
ParseMatch(query, m, filters, remainingQuery) ==
  IF ~IsDefined(m) THEN [filters EXCEPT !.textQuery = trim(remainingQuery)]
  ELSE ParseLoop(query, ValueOf(m).lastIndex,
                 SetFilter(filters, ValueOf(m).filterType, ValueOf(m).filterValue),
                 trim(replaceFirst(remainingQuery, ValueOf(m).fullMatch)))

ParseLoop(query, lastIndex, filters, remainingQuery) ==
  ParseMatch(query, filterRegexExec(query, lastIndex), filters, remainingQuery)

parseSearchQuery(query) ==
  ParseLoop(query, 0,
            [author |-> Undefined, label |-> Undefined, textQuery |-> <<>>],
            query)

(***************************************************************************)
(* PackageService.matchesFilters                                           *)
(***************************************************************************)
\* a faulty gate: the author filter is not looked at
matchesFiltersAnyAuthor(pkg, filters) ==
  (IsDefined(filters.label) /\ IsDefined(pkg.labels)) =>
    \E k \in 1..Len(ValueOf(pkg.labels)) :
      includes(toLowerCase(ValueOf(pkg.labels)[k]),
               toLowerCase(ValueOf(filters.label)))

matchesFilters(pkg, filters) ==
  LET authorOk ==
        IsDefined(filters.author) =>
          \E k \in 1..Len(pkg.author.items) :
            includes(toLowerCase(pkg.author.items[k]),
                     toLowerCase(ValueOf(filters.author)))
      labelOk ==
        (IsDefined(filters.label) /\ IsDefined(pkg.labels)) =>
          \E k \in 1..Len(ValueOf(pkg.labels)) :
            includes(toLowerCase(ValueOf(pkg.labels)[k]),
                     toLowerCase(ValueOf(filters.label)))
  IN authorOk /\ labelOk

(***************************************************************************)
(* PackageService.isRegexPattern                                           *)
(***************************************************************************)
RegexChars == {".", "*", "+", "?", "^", "$", "{", "}", "(", ")", "|", "[", "]", "\\"}

\* a faulty classification: two slashes with nothing between them count
isRegexPatternAnyLength(query) ==
  \/ startsWith(query, <<"/">>) /\ endsWith(query, <<"/">>)
  \/ \E k \in 1..Len(query) : query[k] \in RegexChars

isRegexPattern(query) ==
  \/ startsWith(query, <<"/">>) /\ endsWith(query, <<"/">>) /\ Len(query) > 2
  \/ \E k \in 1..Len(query) : query[k] \in RegexChars

(***************************************************************************)
(* new RegExp(cleanPattern, "i").  The patterns the model compiles are a   *)
(* sequence of literal characters and '.', with an optional leading '^'    *)
(* and an optional trailing '$'; a pattern with an unclosed '(' or '[', an *)
(* unopened ')' or a leading quantifier is a SyntaxError.                  *)
(***************************************************************************)
CountChar(s, c) == Cardinality({k \in 1..Len(s) : s[k] = c})

RegExpSyntaxError(pattern) ==
  \/ CountChar(pattern, "(") # CountChar(pattern, ")")
  \/ CountChar(pattern, "[") > CountChar(pattern, "]")
  \/ pattern # <<>> /\ pattern[1] \in {"*", "+", "?"}

\* textQuery.replace(/^\/|\/$/g, ""): one leading and one trailing slash go
StripSlashes(textQuery) ==
  LET a == IF startsWith(textQuery, <<"/">>) THEN Tail(textQuery) ELSE textQuery
  IN IF endsWith(a, <<"/">>) THEN SubSeq(a, 1, Len(a) - 1) ELSE a

\* the compiled pattern: undefined for a SyntaxError
RegExpCompile(pattern) ==
  IF RegExpSyntaxError(pattern) THEN Undefined
  ELSE LET anchoredStart == startsWith(pattern, <<"^">>)
           p1 == IF anchoredStart THEN Tail(pattern) ELSE pattern
           anchoredEnd == endsWith(p1, <<"$">>)
           atoms == IF anchoredEnd THEN SubSeq(p1, 1, Len(p1) - 1) ELSE p1
       IN Some([anchoredStart |-> anchoredStart, anchoredEnd |-> anchoredEnd,
                atoms |-> atoms])

\* whether the atoms match s at the 0-based position at, ignoring case
RegExpMatchesAt(re, s, at) ==
  /\ at + Len(re.atoms) <= Len(s)
  /\ re.anchoredStart => at = 0
  /\ re.anchoredEnd => at + Len(re.atoms) = Len(s)
  /\ \A k \in 1..Len(re.atoms) :
       re.atoms[k] = "." \/ LowerChar(re.atoms[k]) = LowerChar(s[at + k])

\* regexPattern.test(s)
RegExpTest(re, s) == \E at \in 0..Len(s) : RegExpMatchesAt(re, s, at)

\* regexPattern.exec(s)[0] when the pattern matches: the leftmost match
RegExpExec(re, s) ==
  LET at == CHOOSE a \in 0..Len(s) :
              /\ RegExpMatchesAt(re, s, a)
              /\ \A b \in 0..Len(s) : RegExpMatchesAt(re, s, b) => a <= b
  IN SubSeq(s, at + 1, at + Len(re.atoms))

(***************************************************************************)
(* PackageService.calculateRelevance                                       *)
(***************************************************************************)
ScoreExact == 100
ScorePrefix == 50
ScoreContains == 25
ScoreDescription == 10
ScoreShortName == 5
ShortNameLength == 20

\* a faulty name matching: a pattern that matches the whole name counts as
\* a prefix match
NameScoreNoFullMatch(name, searchTerm, regexPattern) ==
  IF IsDefined(regexPattern)
    THEN IF ~RegExpTest(ValueOf(regexPattern), name) THEN 0
         ELSE IF startsWith(toLowerCase(name),
                            toLowerCase(RegExpExec(ValueOf(regexPattern), name)))
           THEN ScorePrefix
         ELSE ScoreContains
    ELSE IF toLowerCase(name) = toLowerCase(searchTerm) THEN ScoreExact
         ELSE IF startsWith(toLowerCase(name), toLowerCase(searchTerm))
           THEN ScorePrefix
         ELSE IF includes(toLowerCase(name), toLowerCase(searchTerm))
           THEN ScoreContains
         ELSE 0

\* the name matching branch of calculateRelevance
NameScore(name, searchTerm, regexPattern) ==
  IF IsDefined(regexPattern)
    THEN IF ~RegExpTest(ValueOf(regexPattern), name) THEN 0
         ELSE IF RegExpExec(ValueOf(regexPattern), name) = name THEN ScoreExact
         ELSE IF startsWith(toLowerCase(name),
                            toLowerCase(RegExpExec(ValueOf(regexPattern), name)))
           THEN ScorePrefix
         ELSE ScoreContains
    ELSE IF toLowerCase(name) = toLowerCase(searchTerm) THEN ScoreExact
         ELSE IF startsWith(toLowerCase(name), toLowerCase(searchTerm))
           THEN ScorePrefix
         ELSE IF includes(toLowerCase(name), toLowerCase(searchTerm))
           THEN ScoreContains
         ELSE 0

\* a faulty description matching: the description never counts
DescriptionScoreNever(description, searchTerm, regexPattern) == 0

\* the description matching branch of calculateRelevance
DescriptionScore(description, searchTerm, regexPattern) ==
  IF IsDefined(regexPattern)
    THEN IF RegExpTest(ValueOf(regexPattern), description)
           THEN ScoreDescription ELSE 0
    ELSE IF includes(toLowerCase(description), toLowerCase(searchTerm))
           THEN ScoreDescription ELSE 0

\* a faulty boost: a short name gets it on its own, whatever the score
ShortNameBoostOnItsOwn(name, score) ==
  IF Len(name) < ShortNameLength THEN score + ScoreShortName ELSE score

\* a faulty boost: every matching name gets it, whatever its length
ShortNameBoostAnyLength(name, score) ==
  IF score > 0 THEN score + ScoreShortName ELSE score

\* the boost for shorter names
ShortNameBoost(name, score) ==
  IF score > 0 /\ Len(name) < ShortNameLength THEN score + ScoreShortName
  ELSE score

calculateRelevance(name, description, searchTerm, regexPattern) ==
  IF name = <<>> \/ description = <<>> \/ searchTerm = <<>> THEN 0
  ELSE ShortNameBoost(name,
                      NameScore(name, searchTerm, regexPattern)
                        + DescriptionScore(description, searchTerm, regexPattern))

(***************************************************************************)
(* PackageService.getLatestRelease: releases.sort by date, newest first    *)
(* (Array.prototype.sort is stable), then the first one.                   *)
(***************************************************************************)
RECURSIVE InsertByDate(_, _)
InsertByDate(sorted, r) ==
  IF sorted = <<>> THEN <<r>>
  ELSE IF Head(sorted).date >= r.date
    THEN <<Head(sorted)>> \o InsertByDate(Tail(sorted), r)
  ELSE <<r>> \o sorted

RECURSIVE SortReleases(_)
SortReleases(releases) ==
  IF releases = <<>> THEN <<>>
  ELSE InsertByDate(SortReleases(SubSeq(releases, 1, Len(releases) - 1)),
                    releases[Len(releases)])

getLatestRelease(releases) ==
  IF Len(releases) = 0 THEN Null ELSE Some(SortReleases(releases)[1])

(***************************************************************************)
(* PackageService.searchPackages                                           *)
(***************************************************************************)
BaseScore == 20
AuthorBoost == 30
LabelBoost == 25
MaxResults == 10

Min(a, b) == IF a < b THEN a ELSE b

\* a thrown Error: its message is a fixed text followed by an interpolated
\* string (empty when the message interpolates nothing)
Message(text, arg) == [text |-> text, arg |-> arg]

RECURSIVE Concat(_)
Concat(seqs) == IF seqs = <<>> THEN <<>> ELSE Head(seqs) \o Concat(Tail(seqs))

\* the entries of one cache in Object.entries order, each with its repository
Enumerate(cache, type) ==
  Concat([r \in 1..Len(cache) |->
            [k \in 1..Len(cache[r][2]) |->
               [entry |-> cache[r][2][k], repository |-> cache[r][1],
                type |-> type]]])

\* a faulty loop body: no boost for a label filter
ScoreEntryNoLabelBoost(c, filters, regexPattern) ==
  IF c.entry.name = <<>> \/ c.entry.description = <<>> THEN 0
  ELSE IF ~matchesFilters(c.entry, filters) THEN 0
  ELSE (IF filters.textQuery # <<>>
          THEN calculateRelevance(c.entry.name, c.entry.description,
                                  filters.textQuery, regexPattern)
          ELSE BaseScore)
       + (IF IsDefined(filters.author) THEN AuthorBoost ELSE 0)

\* the body of the two for loops for one entry: its relevanceScore, 0 when
\* the entry is skipped
ScoreEntry(c, filters, regexPattern) ==
  IF c.entry.name = <<>> \/ c.entry.description = <<>> THEN 0
  ELSE IF ~matchesFilters(c.entry, filters) THEN 0
  ELSE (IF filters.textQuery # <<>>
          THEN calculateRelevance(c.entry.name, c.entry.description,
                                  filters.textQuery, regexPattern)
          ELSE BaseScore)
       + (IF IsDefined(filters.author) THEN AuthorBoost ELSE 0)
       + (IF IsDefined(filters.label) /\ c.type = "package" THEN LabelBoost ELSE 0)

\* results.push({...})
SearchResult(c, relevanceScore) ==
  [name |-> c.entry.name,
   description |-> c.entry.description,
   author |-> c.entry.author,
   type |-> c.type,
   labels |-> IF c.type = "package" THEN c.entry.labels ELSE Undefined,
   latest_version |->
     IF getLatestRelease(c.entry.releases) = Null THEN Undefined
     ELSE Some(ValueOf(getLatestRelease(c.entry.releases)).version),
   repository |-> c.repository,
   relevanceScore |-> relevanceScore]

\* a faulty sort: among equal scores the later result comes first
RECURSIVE InsertByScoreLatestFirst(_, _)
InsertByScoreLatestFirst(sorted, r) ==
  IF sorted = <<>> THEN <<r>>
  ELSE IF Head(sorted).relevanceScore > r.relevanceScore
    THEN <<Head(sorted)>> \o InsertByScoreLatestFirst(Tail(sorted), r)
  ELSE <<r>> \o sorted

\* results.sort((a, b) => b.relevanceScore - a.relevanceScore): stable
RECURSIVE InsertByScore(_, _)
InsertByScore(sorted, r) ==
  IF sorted = <<>> THEN <<r>>
  ELSE IF Head(sorted).relevanceScore >= r.relevanceScore
    THEN <<Head(sorted)>> \o InsertByScore(Tail(sorted), r)
  ELSE <<r>> \o sorted

RECURSIVE SortByScore(_)
SortByScore(results) ==
  IF results = <<>> THEN <<>>
  ELSE InsertByScore(SortByScore(SubSeq(results, 1, Len(results) - 1)),
                     results[Len(results)])

\* if (relevanceScore > 0) results.push(...)
PushResult(c, relevanceScore) ==
  IF relevanceScore > 0 THEN <<SearchResult(c, relevanceScore)>> ELSE <<>>

RECURSIVE CollectResults(_, _, _)
CollectResults(cands, filters, regexPattern) ==
  IF cands = <<>> THEN <<>>
  ELSE PushResult(Head(cands), ScoreEntry(Head(cands), filters, regexPattern))
       \o CollectResults(Tail(cands), filters, regexPattern)

\* a faulty end: the first MaxResults as they were pushed, unsorted
TopResultsUnsorted(all) ==
  SubSeq(all, 1, Min(Len(all), MaxResults))

\* the end of searchPackages: sort by score, keep the first MaxResults
TopResults(all) ==
  SubSeq(SortByScore(all), 1, Min(Len(all), MaxResults))

\* searchPackages once the query is parsed and the pattern compiled
RankCatalog(channelData, filters, regexPattern) ==
  TopResults(CollectResults(
               Enumerate(channelData.packages_cache, "package")
                 \o Enumerate(channelData.libraries_cache, "library"),
               filters, regexPattern))

\* filters.textQuery ? this.isRegexPattern(filters.textQuery) : false
IsRegexQuery(filters) ==
  filters.textQuery # <<>> /\ isRegexPattern(filters.textQuery)

\* a faulty search: a pattern that does not compile is searched as text
SearchCatalogLenient(channelData, filters) ==
  [ok |-> TRUE,
   results |-> RankCatalog(channelData, filters,
                 IF IsRegexQuery(filters)
                   THEN RegExpCompile(StripSlashes(filters.textQuery))
                   ELSE Null),
   error |-> Message("", <<>>)]

\* searchPackages after the catalog is fetched
SearchCatalog(channelData, filters) ==
  IF IsRegexQuery(filters)
       /\ RegExpCompile(StripSlashes(filters.textQuery)) = Undefined
    THEN [ok |-> FALSE, results |-> <<>>,
          error |-> Message("Invalid regex pattern: ", filters.textQuery)]
  ELSE [ok |-> TRUE,
        results |-> RankCatalog(channelData, filters,
                      IF IsRegexQuery(filters)
                        THEN RegExpCompile(StripSlashes(filters.textQuery))
                        ELSE Null),
        error |-> Message("", <<>>)]

\* one cache of the catalog object once the loops are through with it:
\* getLatestRelease(pkg.releases) sorts the releases array of every entry
\* that is pushed, in place
SortedCache(cache, type, filters, regexPattern) ==
  [r \in 1..Len(cache) |->
     <<cache[r][1],
       [k \in 1..Len(cache[r][2]) |->
          IF ScoreEntry([entry |-> cache[r][2][k], repository |-> cache[r][1],
                         type |-> type], filters, regexPattern) > 0
            THEN [cache[r][2][k] EXCEPT !.releases = SortReleases(@)]
            ELSE cache[r][2][k]]>>]

\* the channelData object of searchPackages when it returns or throws
ChannelDataAfter(channelData, filters) ==
  IF IsRegexQuery(filters)
       /\ RegExpCompile(StripSlashes(filters.textQuery)) = Undefined
    THEN channelData
  ELSE [packages_cache |->
          SortedCache(channelData.packages_cache, "package", filters,
                      IF IsRegexQuery(filters)
                        THEN RegExpCompile(StripSlashes(filters.textQuery))
                        ELSE Null),
        libraries_cache |->
          SortedCache(channelData.libraries_cache, "library", filters,
                      IF IsRegexQuery(filters)
                        THEN RegExpCompile(StripSlashes(filters.textQuery))
                        ELSE Null)]

\* a faulty search: the catalog is fetched before the query is looked at
searchPackagesFetchFirst(query, channelData, fetchOk) ==
  IF ~fetchOk
    THEN [ok |-> FALSE, results |-> <<>>,
          error |-> Message("Failed to fetch package data. Please try again later.",
                            <<>>)]
  ELSE IF trim(query) = <<>>
    THEN [ok |-> FALSE, results |-> <<>>,
          error |-> Message("Please provide a search query.", <<>>)]
  ELSE SearchCatalog(channelData, parseSearchQuery(trim(query)))

\* the outcome of searchPackages(query): [ok |-> TRUE, results] when it
\* returns, [ok |-> FALSE, error] when it throws.  fetchOk says whether
\* fetchChannelData answers.
searchPackages(query, channelData, fetchOk) ==
  IF trim(query) = <<>>
    THEN [ok |-> FALSE, results |-> <<>>,
          error |-> Message("Please provide a search query.", <<>>)]
  ELSE IF ~fetchOk
    THEN [ok |-> FALSE, results |-> <<>>,
          error |-> Message("Failed to fetch package data. Please try again later.",
                            <<>>)]
  ELSE SearchCatalog(channelData, parseSearchQuery(trim(query)))

\* the searches of the queries the users send, computed once
QueriesSent ==
  {<<"l">>,
   <<"l","a","b","e","l",":","l","s","p"," ","[","a">>,
   <<"l","s","p">>, <<"g","i","t">>, <<" ","/","^","G","i","t","/">>, <<"y","a","m","l">>, <<"a","u","t","h","o","r",":","A","n","n"," ","g","i","t">>, <<"z","z">>, <<"(">>, <<" ">>}

SearchMemo ==
  [q \in QueriesSent, fetchOk \in BOOLEAN |-> searchPackages(q, ChannelData, fetchOk)]

(***************************************************************************)
(* Discord constants.                                                      *)
(***************************************************************************)
PING == 1
APPLICATION_COMMAND == 2
MESSAGE_COMPONENT == 3

PONG == 1
CHANNEL_MESSAGE_WITH_SOURCE == 4
UPDATE_MESSAGE == 7

ACTION_ROW == 1
BUTTON == 2
SELECT_MENU == 3

Ephemeral == 64

PrevPrefix == <<"p","r","e","v","_","p","a","c","k","a","g","e","_">>
NextPrefix == <<"n","e","x","t","_","p","a","c","k","a","g","e","_">>
ListPrefix == <<"p","a","c","k","a","g","e","_","l","i","s","t","_">>
SelectPrefix == <<"p","a","c","k","a","g","e","_","s","e","l","e","c","t","_">>
KeyPrefix == <<"s","e","a","r","c","h","_">>
Anon == <<"a","n","o","n">>

(***************************************************************************)
(* The session store: the KV namespace PACKAGE_CACHE.  A key maps to its   *)
(* value and the seconds that remain until it expires; an expired key is   *)
(* gone.                                                                   *)
(***************************************************************************)
ExpirationTtl == 900

KvKey(searchId) == KeyPrefix \o searchId

\* JSON.stringify(results): every property of every result, in order
JSONStringify(results) ==
  [k \in 1..Len(results) |->
     [name |-> results[k].name, description |-> results[k].description,
      author |-> results[k].author, type |-> results[k].type,
      labels |-> results[k].labels,
      latest_version |-> results[k].latest_version,
      repository |-> results[k].repository,
      relevanceScore |-> results[k].relevanceScore]]

\* JSON.parse(data)
JSONParse(data) == [k \in 1..Len(data) |-> data[k]]

\* PACKAGE_CACHE.get(key): the value, or null
KvGet(kv, key) == IF key \in DOMAIN kv THEN Some(kv[key].value) ELSE Null

\* a faulty getSearchResults: a missing entry reads as an empty result list
getSearchResultsOrEmpty(kv, searchId) ==
  IF KvKey(searchId) \in DOMAIN kv
    THEN Some(JSONParse(kv[KvKey(searchId)].value))
    ELSE Some(<<>>)

\* a faulty getSearchResults: when another session is stored, it is the one
\* that is read
getSearchResultsAnySession(kv, searchId) ==
  IF DOMAIN kv \ {KvKey(searchId)} # {}
    THEN Some(JSONParse(kv[CHOOSE k \in DOMAIN kv \ {KvKey(searchId)} : TRUE].value))
  ELSE IF KvKey(searchId) \in DOMAIN kv
    THEN Some(JSONParse(kv[KvKey(searchId)].value))
  ELSE Null

\* PackageService.getSearchResults: data ? JSON.parse(data) : null
getSearchResults(kv, searchId) ==
  LET data == KvGet(kv, KvKey(searchId))
  IN IF data # Null /\ ValueOf(data) # <<>> THEN Some(JSONParse(ValueOf(data)))
     ELSE Null

\* a faulty storeSearchResults: the entry lives twice as long
storeSearchResultsLonger(searchId, results) ==
  [key |-> KvKey(searchId), value |-> JSONStringify(results),
   expirationTtl |-> 2 * ExpirationTtl]

\* PackageService.storeSearchResults: the put it issues
storeSearchResults(searchId, results) ==
  [key |-> KvKey(searchId), value |-> JSONStringify(results),
   expirationTtl |-> ExpirationTtl]

\* the namespace after a put
KvPut(kv, put) ==
  [k \in DOMAIN kv \cup {put.key} |->
     IF k = put.key THEN [value |-> put.value, ttl |-> put.expirationTtl]
     ELSE kv[k]]

\* the namespace after dt seconds
KvElapse(kv, dt) ==
  [k \in {j \in DOMAIN kv : kv[j].ttl > dt} |-> [kv[k] EXCEPT !.ttl = @ - dt]]

(***************************************************************************)
(* Embeds.  An embed is kept as what it shows: its kind, the fixed text of *)
(* an error, the result a detail shows with its "Showing position of       *)
(* total" footer, and the results an overview lists.                       *)
(***************************************************************************)
Embed(kind, text, item, position, total, listed) ==
  [kind |-> kind, text |-> text, item |-> item, position |-> position,
   total |-> total, listed |-> listed]

NoResultsEmbed == Embed("noResults", "No Results", Undefined, 0, 0, <<>>)

ErrorEmbed(description) == Embed("error", description, Undefined, 0, 0, <<>>)

ExpiredText == "Search results have expired. Please search again."
ExpiredOrGoneText ==
  "Search results have expired or are no longer available. Please search again."
RetrieveErrorText == "An error occurred while retrieving package details."
\* the message of the Error a failing KV call throws
KvErrorText == "KV error"

OverviewCount == 5
MenuOptions == 25

\* a faulty results[index]: an index out of range is clamped into it
ResultAtClamped(results, index) ==
  IF IsNaN(index) \/ results = <<>> THEN Undefined
  ELSE IF ValueOf(index) < 0 THEN Some(results[1])
  ELSE IF ValueOf(index) >= Len(results) THEN Some(results[Len(results)])
  ELSE Some(results[ValueOf(index) + 1])

\* results[index] for an index that may be NaN: undefined out of range
ResultAt(results, index) ==
  IF IsNaN(index) THEN Undefined
  ELSE IF ValueOf(index) >= 0 /\ ValueOf(index) < Len(results)
    THEN Some(results[ValueOf(index) + 1])
  ELSE Undefined

\* createUpdatableSearchEmbed(query, results, filters, selectedIndex)
createUpdatableSearchEmbed(results, selectedIndex) ==
  IF Len(results) = 0 THEN NoResultsEmbed
  ELSE IF IsDefined(selectedIndex) /\ IsDefined(ResultAt(results, selectedIndex))
    THEN Embed("detail", "", ResultAt(results, selectedIndex),
               ValueOf(selectedIndex) + 1, Len(results), <<>>)
  ELSE Embed("overview", "", Undefined, 0, Len(results),
             SubSeq(results, 1, Min(Len(results), OverviewCount)))

\* a button of a navigation row
Button(custom_id, disabled) ==
  [type |-> BUTTON, custom_id |-> custom_id, disabled |-> disabled,
   options |-> <<>>]

\* a faulty menu: the options count from one
SelectMenuOneBased(searchId, results) ==
  [type |-> SELECT_MENU, custom_id |-> SelectPrefix \o searchId,
   disabled |-> FALSE,
   options |-> [k \in 1..Min(Len(results), MenuOptions) |->
                  [label |-> results[k].name,
                   value |-> results[k].name \o <<"|">> \o results[k].repository
                             \o <<"|">> \o NumToString(k)]]]

\* the select menu of the overview: option index carries name|repository|index
SelectMenu(searchId, results) ==
  [type |-> SELECT_MENU, custom_id |-> SelectPrefix \o searchId,
   disabled |-> FALSE,
   options |-> [k \in 1..Min(Len(results), MenuOptions) |->
                  [label |-> results[k].name,
                   value |-> results[k].name \o <<"|">> \o results[k].repository
                             \o <<"|">> \o NumToString(k - 1)]]]

ActionRow(components) == [type |-> ACTION_ROW, components |-> components]

\* a faulty NextDisabled: the bound is one too far
NextDisabledPastEnd(index, len) == index = len

\* the navigation row of an item detail at index, of a session of length len
PrevDisabled(index, len) == index = 0
NextDisabled(index, len) == index = len - 1

navigationComponents(searchId, index, len) ==
  <<ActionRow(<<
      Button(PrevPrefix \o searchId \o <<"_">> \o NumToString(index),
             PrevDisabled(index, len)),
      Button(NextPrefix \o searchId \o <<"_">> \o NumToString(index),
             NextDisabled(index, len)),
      Button(ListPrefix \o searchId, FALSE) >>)>>

\* the searchId createSearchResultsEmbeds generates: the first 8 characters
\* of the user id (or anon), an underscore and the random suffix
GenerateSearchId(userId, random) ==
  (IF IsDefined(userId) /\ ValueOf(userId) # <<>>
     THEN substring(ValueOf(userId), 0, 8) ELSE Anon)
  \o <<"_">> \o random

InitialShown == 3

\* createSearchResultsEmbeds(query, results, filters, isRegex, userId)
createSearchResultsEmbeds(results, filters, isRegex, userId, random) ==
  IF Len(results) = 0
    THEN [embeds |-> <<NoResultsEmbed>>, components |-> <<>>,
          searchId |-> Undefined]
  ELSE
    LET exact == {k \in 1..Len(results) :
                    /\ ~isRegex
                    /\ filters.textQuery # <<>>
                    /\ toLowerCase(results[k].name) = toLowerCase(filters.textQuery)}
        resultsToShow ==
          IF exact # {}
            THEN <<results[CHOOSE k \in exact : \A j \in exact : k <= j]>>
            ELSE SubSeq(results, 1, Min(Len(results), InitialShown))
        embeds == [k \in 1..Len(resultsToShow) |->
                     Embed("result", "", Some(resultsToShow[k]), 0, 0, <<>>)]
        searchId == GenerateSearchId(userId, random)
    IN IF Len(results) > 1
         THEN [embeds |-> embeds,
               components |-> <<ActionRow(<<SelectMenu(searchId, results)>>)>>,
               searchId |-> Some(searchId)]
         ELSE [embeds |-> embeds, components |-> <<>>, searchId |-> Undefined]

(***************************************************************************)
(* Responses.  data is undefined for a PONG; content, flags, embeds and    *)
(* components are undefined when the response leaves them out.             *)
(***************************************************************************)
Response(type, data) == [type |-> type, data |-> data]

ContentData(message) ==
  Some([content |-> Some(message), flags |-> Some(Ephemeral),
        embeds |-> Undefined, components |-> Undefined])

EmbedData(embeds, components) ==
  Some([content |-> Undefined, flags |-> Undefined,
        embeds |-> Some(embeds), components |-> Some(components)])

ErrorUpdate(text) ==
  Response(UPDATE_MESSAGE, EmbedData(<<ErrorEmbed(text)>>, <<>>))

UnknownResponse ==
  Response(CHANNEL_MESSAGE_WITH_SOURCE, ContentData(Message("Unknown command.", <<>>)))

(***************************************************************************)
(* handleDiscordInteraction.  An interaction is                            *)
(*   [type, name, query, custom_id, values, userId]                        *)
(* with name = data.name, query = the value of the option named query,     *)
(* custom_id = data.custom_id, values = data.values and userId =           *)
(* member.user.id, each undefined when the event does not carry it.        *)
(* env is [kv, fetchOk, random, kvOk]: the namespace, whether the catalog  *)
(* fetch of this request answers, what Math.random gives it, and whether   *)
(* the KV calls answer.  The outcome is the response (undefined when the   *)
(* handler throws), the namespace afterwards and the I/O calls made.       *)
(***************************************************************************)
Outcome(response, kv, fetches, gets, puts) ==
  [response |-> response, kv |-> kv, fetches |-> fetches, gets |-> gets,
   puts |-> puts]

\* packageService.searchPackages(query) on the published catalog.  The
\* catalog is the same at every request, so the search of a query is looked
\* up in SearchMemo instead of computed again.
Search(query, fetchOk) == SearchMemo[query, fetchOk]

\* a faulty store condition: two results are not stored
StoresMoreThanTwo(results, searchId) ==
  Len(results) > 2 /\ IsDefined(searchId) /\ ValueOf(searchId) # <<>>

\* results.length > 1 && response.searchId: whether the results are stored
StoresResults(results, searchId) ==
  Len(results) > 1 /\ IsDefined(searchId) /\ ValueOf(searchId) # <<>>

\* the first response of a search with several results: the detail of the
\* first one and its navigation row
FirstPackageResponse(results, searchId) ==
  Response(CHANNEL_MESSAGE_WITH_SOURCE,
    EmbedData(<<createUpdatableSearchEmbed(results, Some(0))>>,
      <<ActionRow(<<
          Button(PrevPrefix \o searchId \o <<"_", "0">>, TRUE),
          Button(NextPrefix \o searchId \o <<"_", "0">>, Len(results) = 1),
          Button(ListPrefix \o searchId, FALSE) >>)>>))

\* a faulty packages command: a put that rejects is not waited for, and
\* the first view goes out with its handles
RespondToSearchUnawaited(env, results, response) ==
  IF Len(results) > 1
    THEN Outcome(Some(FirstPackageResponse(results, ValueOf(response.searchId))),
                 IF StoresResults(results, response.searchId) /\ env.kvOk
                   THEN KvPut(env.kv, storeSearchResults(ValueOf(response.searchId),
                                                         results))
                   ELSE env.kv,
                 1, 0, IF StoresResults(results, response.searchId) THEN 1 ELSE 0)
  ELSE Outcome(Some(Response(CHANNEL_MESSAGE_WITH_SOURCE,
                             EmbedData(response.embeds, response.components))),
               env.kv, 1, 0, 0)

\* the packages command after searchPackages returned results and
\* createSearchResultsEmbeds the response
RespondToSearch(env, results, response) ==
  IF StoresResults(results, response.searchId) /\ ~env.kvOk
    THEN Outcome(Some(Response(CHANNEL_MESSAGE_WITH_SOURCE,
                               ContentData(Message(KvErrorText, <<>>)))),
                 env.kv, 1, 0, 1)
  ELSE IF Len(results) > 1
    THEN Outcome(Some(FirstPackageResponse(results, ValueOf(response.searchId))),
                 IF StoresResults(results, response.searchId)
                   THEN KvPut(env.kv, storeSearchResults(ValueOf(response.searchId),
                                                         results))
                   ELSE env.kv,
                 1, 0, IF StoresResults(results, response.searchId) THEN 1 ELSE 0)
  ELSE Outcome(Some(Response(CHANNEL_MESSAGE_WITH_SOURCE,
                             EmbedData(response.embeds, response.components))),
               env.kv, 1, 0, 0)

\* results as a service that keeps state between requests gives them: in
\* reverse order once a session is stored
KeptBetweenRequests(env, results) ==
  IF env.kv = <<>> THEN results
  ELSE [k \in 1..Len(results) |-> results[Len(results) + 1 - k]]

\* a faulty packages command: what an earlier request left changes the
\* results of this one
SearchAndRespondStateful(interaction, env, found, filters) ==
  IF ~found.ok
    THEN Outcome(Some(Response(CHANNEL_MESSAGE_WITH_SOURCE,
                               ContentData(found.error))),
                 env.kv,
                 IF trim(ValueOf(interaction.query)) = <<>> THEN 0 ELSE 1, 0, 0)
  ELSE RespondToSearch(env, KeptBetweenRequests(env, found.results),
         createSearchResultsEmbeds(KeptBetweenRequests(env, found.results),
                                   filters, IsRegexQuery(filters),
                                   interaction.userId, ValueOf(env.random)))

\* the try block of the packages command, given what searchPackages gave
SearchAndRespond(interaction, env, found, filters) ==
  IF ~found.ok
    THEN Outcome(Some(Response(CHANNEL_MESSAGE_WITH_SOURCE,
                               ContentData(found.error))),
                 env.kv,
                 IF trim(ValueOf(interaction.query)) = <<>> THEN 0 ELSE 1, 0, 0)
  ELSE RespondToSearch(env, found.results,
         createSearchResultsEmbeds(found.results, filters, IsRegexQuery(filters),
                                   interaction.userId, ValueOf(env.random)))

\* commandName === "packages"
HandlePackages(interaction, env) ==
  IF ~IsDefined(interaction.query) \/ ValueOf(interaction.query) = <<>>
    THEN Outcome(Some(Response(CHANNEL_MESSAGE_WITH_SOURCE,
                               ContentData(Message("Please provide a search query.",
                                                   <<>>)))),
                 env.kv, 0, 0, 0)
  ELSE SearchAndRespond(interaction, env,
                        Search(ValueOf(interaction.query), env.fetchOk),
                        parseSearchQuery(trim(ValueOf(interaction.query))))

\* commandName === "help"
HandleHelp(interaction, env) ==
  Outcome(Some(Response(CHANNEL_MESSAGE_WITH_SOURCE,
                        EmbedData(<<Embed("help", "", Undefined, 0, 0, <<>>)>>, <<>>))),
          env.kv, 0, 0, 0)

\* a faulty stats command: the answer names the HTTP status of the failure
HandleStatsLeakingStatus(interaction, env) ==
  IF env.fetchOk
    THEN Outcome(Some(Response(CHANNEL_MESSAGE_WITH_SOURCE,
                   EmbedData(<<Embed("stats", "", Undefined, 0, 0, <<>>)>>, <<>>))),
                 env.kv, 1, 0, 0)
    ELSE Outcome(Some(Response(CHANNEL_MESSAGE_WITH_SOURCE,
                   ContentData(Message("HTTP error! status: ", <<"5","0","3">>)))),
                 env.kv, 1, 0, 0)

\* commandName === "stats"
HandleStats(interaction, env) ==
  IF env.fetchOk
    THEN Outcome(Some(Response(CHANNEL_MESSAGE_WITH_SOURCE,
                   EmbedData(<<Embed("stats", "", Undefined, 0, 0, <<>>)>>, <<>>))),
                 env.kv, 1, 0, 0)
    ELSE Outcome(Some(Response(CHANNEL_MESSAGE_WITH_SOURCE,
                   ContentData(Message("An error occurred while fetching statistics.",
                                       <<>>)))),
                 env.kv, 1, 0, 0)

\* the end of the select and navigation handlers: the item at index of the
\* stored results, or the error embed when there is none
ShowItem(env, searchId, index, results, goneText) ==
  IF results = Null \/ ~IsDefined(ResultAt(ValueOf(results), index))
    THEN Outcome(Some(ErrorUpdate(goneText)), env.kv, 0, 1, 0)
  ELSE Outcome(
         Some(Response(UPDATE_MESSAGE,
           EmbedData(<<createUpdatableSearchEmbed(ValueOf(results), index)>>,
                     navigationComponents(searchId, ValueOf(index),
                                          Len(ValueOf(results)))))),
         env.kv, 0, 1, 0)

\* const [packageName, repository, indexStr] = selectedValue.split('|')
IndexStr(selectedValue) ==
  IF Len(split(selectedValue, "|")) >= 3
    THEN Some(split(selectedValue, "|")[3]) ELSE Undefined

\* customId.startsWith('package_select_') with a selected value
HandleSelect(interaction, env) ==
  IF ~env.kvOk
    THEN Outcome(Some(ErrorUpdate(RetrieveErrorText)), env.kv, 0, 1, 0)
  ELSE ShowItem(env,
         replaceFirst(ValueOf(interaction.custom_id), SelectPrefix),
         parseInt(IndexStr(ValueOf(interaction.values)[1])),
         getSearchResults(env.kv,
                          replaceFirst(ValueOf(interaction.custom_id), SelectPrefix)),
         ExpiredOrGoneText)

\* customId.replace(prefix, '')
Remaining(customId) ==
  replaceFirst(customId,
               IF startsWith(customId, PrevPrefix) THEN PrevPrefix ELSE NextPrefix)

\* a faulty decoding: the handle is split at its first underscore
NavSearchIdFirstUnderscore(remaining) ==
  substring(remaining, 0, indexOf(remaining, <<"_">>))

\* remaining.substring(0, lastUnderscoreIndex)
NavSearchId(remaining) == substring(remaining, 0, lastIndexOf(remaining, "_"))

\* parseInt(remaining.substring(lastUnderscoreIndex + 1))
CurrentIndex(remaining) ==
  parseInt(Some(substringFrom(remaining, lastIndexOf(remaining, "_") + 1)))

\* a faulty step: Previous and Next both step forward
NewIndexForward(isPrev, currentIndex) ==
  IF IsNaN(currentIndex) THEN NaN ELSE Num(ValueOf(currentIndex) + 1)

\* isPrev ? currentIndex - 1 : currentIndex + 1
NewIndex(isPrev, currentIndex) ==
  IF IsNaN(currentIndex) THEN NaN
  ELSE IF isPrev THEN Num(ValueOf(currentIndex) - 1)
  ELSE Num(ValueOf(currentIndex) + 1)

\* customId.startsWith('prev_package_') || customId.startsWith('next_package_')
HandleNavigation(interaction, env) ==
  IF ~env.kvOk THEN Outcome(Undefined, env.kv, 0, 1, 0)
  ELSE ShowItem(env,
         NavSearchId(Remaining(ValueOf(interaction.custom_id))),
         NewIndex(startsWith(ValueOf(interaction.custom_id), PrevPrefix),
                  CurrentIndex(Remaining(ValueOf(interaction.custom_id)))),
         getSearchResults(env.kv,
                          NavSearchId(Remaining(ValueOf(interaction.custom_id)))),
         ExpiredText)

\* the end of the list handler: the overview of the stored results
ShowList(env, searchId, results) ==
  IF results = Null
    THEN Outcome(Some(ErrorUpdate(ExpiredText)), env.kv, 0, 1, 0)
  ELSE Outcome(
         Some(Response(UPDATE_MESSAGE,
           EmbedData(<<createUpdatableSearchEmbed(ValueOf(results), Undefined)>>,
                     <<ActionRow(<<SelectMenu(searchId, ValueOf(results))>>)>>))),
         env.kv, 0, 1, 0)

\* a faulty list handler: it puts the session back, which renews its TTL
HandleListRenewing(interaction, env) ==
  IF getSearchResults(env.kv,
                      replaceFirst(ValueOf(interaction.custom_id), ListPrefix)) = Null
    THEN Outcome(Some(ErrorUpdate(ExpiredText)), env.kv, 0, 1, 0)
  ELSE Outcome(
         Some(Response(UPDATE_MESSAGE,
           EmbedData(<<Embed("overview", "", Undefined, 0, 0, <<>>)>>, <<>>))),
         KvPut(env.kv,
               storeSearchResults(
                 replaceFirst(ValueOf(interaction.custom_id), ListPrefix),
                 ValueOf(getSearchResults(env.kv,
                           replaceFirst(ValueOf(interaction.custom_id),
                                        ListPrefix))))),
         0, 1, 1)

\* customId.startsWith('package_list_')
HandleList(interaction, env) ==
  IF ~env.kvOk THEN Outcome(Undefined, env.kv, 0, 1, 0)
  ELSE ShowList(env, replaceFirst(ValueOf(interaction.custom_id), ListPrefix),
                getSearchResults(env.kv,
                                 replaceFirst(ValueOf(interaction.custom_id),
                                              ListPrefix)))

\* the final return of handleDiscordInteraction
HandleFallback(interaction, env) == Outcome(Some(UnknownResponse), env.kv, 0, 0, 0)

\* interaction.data.values?.[0] is truthy
HasSelectedValue(interaction) ==
  /\ IsDefined(interaction.values)
  /\ Len(ValueOf(interaction.values)) > 0
  /\ ValueOf(interaction.values)[1] # <<>>

\* a faulty dispatcher: the component branches come before the PING test
handleComponentsFirst(interaction, env) ==
  IF /\ IsDefined(interaction.custom_id)
     /\ startsWith(ValueOf(interaction.custom_id), ListPrefix)
    THEN HandleList(interaction, env)
  ELSE IF interaction.type = PING
    THEN Outcome(Some(Response(PONG, Undefined)), env.kv, 0, 0, 0)
  ELSE IF interaction.type = APPLICATION_COMMAND
    THEN IF interaction.name = Some("packages") THEN HandlePackages(interaction, env)
         ELSE IF interaction.name = Some("help") THEN HandleHelp(interaction, env)
         ELSE IF interaction.name = Some("stats") THEN HandleStats(interaction, env)
         ELSE HandleFallback(interaction, env)
  ELSE IF interaction.type = MESSAGE_COMPONENT /\ IsDefined(interaction.custom_id)
    THEN IF /\ startsWith(ValueOf(interaction.custom_id), SelectPrefix)
            /\ HasSelectedValue(interaction)
           THEN HandleSelect(interaction, env)
         ELSE IF \/ startsWith(ValueOf(interaction.custom_id), PrevPrefix)
                 \/ startsWith(ValueOf(interaction.custom_id), NextPrefix)
           THEN HandleNavigation(interaction, env)
         ELSE HandleFallback(interaction, env)
  ELSE HandleFallback(interaction, env)

handleDiscordInteraction(interaction, env) ==
  IF interaction.type = PING
    THEN Outcome(Some(Response(PONG, Undefined)), env.kv, 0, 0, 0)
  ELSE IF interaction.type = APPLICATION_COMMAND
    THEN IF interaction.name = Some("packages") THEN HandlePackages(interaction, env)
         ELSE IF interaction.name = Some("help") THEN HandleHelp(interaction, env)
         ELSE IF interaction.name = Some("stats") THEN HandleStats(interaction, env)
         ELSE HandleFallback(interaction, env)
  ELSE IF interaction.type = MESSAGE_COMPONENT /\ IsDefined(interaction.custom_id)
    THEN IF /\ startsWith(ValueOf(interaction.custom_id), SelectPrefix)
            /\ HasSelectedValue(interaction)
           THEN HandleSelect(interaction, env)
         ELSE IF \/ startsWith(ValueOf(interaction.custom_id), PrevPrefix)
                 \/ startsWith(ValueOf(interaction.custom_id), NextPrefix)
           THEN HandleNavigation(interaction, env)
         ELSE IF startsWith(ValueOf(interaction.custom_id), ListPrefix)
           THEN HandleList(interaction, env)
         ELSE HandleFallback(interaction, env)
  ELSE HandleFallback(interaction, env)

(***************************************************************************)
(* The state machine.                                                      *)
(*   kv            the KV namespace                                        *)
(*   msgs          the messages that carry components, oldest first: the   *)
(*                 searchId generated for the message, the query of the    *)
(*                 command it answers and the data shown                   *)
(*   lastEvent     the interaction handled by the last step, with where it *)
(*                 came from                                               *)
(*   lastResponse  the response to it (undefined when the handler threw)   *)
(*   effects       the I/O calls the last step made                        *)
(*   http          the HTTP response fetch returned for it                 *)
(*   searched      a call of searchPackages on its own: the catalog as it  *)
(*                 was fetched, the query and, once it has run, the        *)
(*                 filters it parsed, the catalog object as the call left  *)
(*                 it and what it found                                    *)
(*   scored        a call of calculateRelevance on its own: the name, the  *)
(*                 description, the text query and, once it has run, the   *)
(*                 score                                                   *)
(***************************************************************************)
VARIABLES kv, msgs, lastEvent, lastResponse, effects, http, searched, scored

vars == <<kv, msgs, lastEvent, lastResponse, effects, http, searched, scored>>

MaxSessions == 1

User == Some(<<"1","2","3","4","5","6","7","8","9">>)

\* the slash commands the users send: <<name, query, userId, fetchOk>>, with
\* fetchOk saying whether the catalog fetch of this request answers
CommandInputs ==
  {<<Some("packages"), Some(<<"l","s","p">>), User, TRUE>>,
   <<Some("packages"), Some(<<"g","i","t">>), Undefined, TRUE>>,
   <<Some("packages"), Some(<<" ","/","^","G","i","t","/">>), Undefined, TRUE>>,
   <<Some("packages"), Some(<<"y","a","m","l">>), User, TRUE>>,
   <<Some("packages"), Some(<<"a","u","t","h","o","r",":","A","n","n"," ","g","i","t">>), Undefined, TRUE>>,
   <<Some("packages"), Some(<<"z","z">>), User, TRUE>>,
   <<Some("packages"), Some(<<"(">>), User, TRUE>>,
   <<Some("packages"), Some(<<"g","i","t">>), User, FALSE>>,
   <<Some("packages"), Some(<<" ">>), Undefined, TRUE>>,
   <<Some("packages"), Some(<<" ">>), User, FALSE>>,
   <<Some("packages"), Some(<<"l","a","b","e","l",":","l","s","p"," ","[","a">>), User, TRUE>>,
   <<Some("packages"), Some(<<>>), User, TRUE>>,
   <<Some("packages"), Undefined, Undefined, TRUE>>,
   <<Some("help"), Undefined, User, TRUE>>,
   <<Some("stats"), Undefined, User, TRUE>>,
   <<Some("stats"), Undefined, Undefined, FALSE>>,
   <<Some("other"), Undefined, User, TRUE>>,
   <<Undefined, Undefined, Undefined, TRUE>>}

\* what Math.random().toString(36).substring(2, 15) can give
RandomSuffixes == {<<"k","3">>}

GhostId == <<"a","n","o","n","_","z","z">>

Interaction(type, name, query, custom_id, values, userId) ==
  [type |-> type, name |-> name, query |-> query, custom_id |-> custom_id,
   values |-> values, userId |-> userId]

\* the interaction with the place it came from and whether the catalog
\* fetch of the request answers: src is "command", "ui" (a press or a choice
\* on the message in slot), "stale" (a handle or value the messages do not
\* offer), "again" (the component event before it, sent once more), "ping"
\* or "rejected" (a request fetch refuses or fails on before it has an
\* interaction).  kvOk says whether the KV calls of the request
\* answer, and request is the HTTP request the interaction came in.
Event(interaction, src, slot, fetchOk) ==
  [interaction |-> interaction, src |-> src, slot |-> slot, fetchOk |-> fetchOk,
   kvOk |-> TRUE,
   request |-> [method |-> "POST", signature |-> TRUE, timestamp |-> TRUE,
                verify |-> "valid", text |-> "json"]]

NoEvent ==
  Event(Interaction(0, Undefined, Undefined, Undefined, Undefined, Undefined),
        "none", 0, TRUE)

NoEffects == [fetches |-> 0, gets |-> 0, puts |-> 0]

\* no call of searchPackages or calculateRelevance on its own
NotSearched ==
  [catalog |-> <<>>, query |-> <<>>, filters |-> Undefined,
   channelData |-> Undefined, found |-> Undefined]

NotScored ==
  [name |-> <<>>, description |-> <<>>, searchTerm |-> <<>>,
   isRegexQuery |-> Undefined, score |-> Undefined]

\* a faulty worker: the sessions are read through a cache kept in the
\* process, which the component request before this one left empty
EnvBehindProcessCache(random, fetchOk) ==
  [kv |-> IF lastEvent.src \in {"ui", "again"} THEN <<>> ELSE kv,
   fetchOk |-> fetchOk,
   random |-> random, kvOk |-> TRUE]

Env(random, fetchOk) ==
  [kv |-> kv, fetchOk |-> fetchOk, random |-> random, kvOk |-> TRUE]

\* the HTTP request of an interaction: signature and timestamp say whether
\* the headers are there, verify is what verifyKey does with them ("valid",
\* "invalid" or "throws"), text what the body is ("json" for the interaction,
\* "null" for the JSON text null, "malformed", or "unreadable" when
\* request.text() rejects)
HttpRequest(method, signature, timestamp, verify, text, interaction) ==
  [method |-> method, signature |-> signature, timestamp |-> timestamp,
   verify |-> verify, text |-> text, interaction |-> interaction]

\* the request Discord sends for an interaction
SignedPost(interaction) ==
  HttpRequest("POST", TRUE, TRUE, "valid", "json", interaction)

\* new Response(body, { status }): json is the response object whose
\* JSON.stringify is the body, text the body otherwise
HttpResponse(status, json, text) ==
  [status |-> status, json |-> json, text |-> text]

\* what fetch gives: the HTTP response and the outcome of the handler
Served(response, out) == [http |-> response, out |-> out]

\* fetch returned before it called handleDiscordInteraction
Unhandled(response, env) ==
  Served(response, Outcome(Undefined, env.kv, 0, 0, 0))

\* } catch (error) { return new Response("Internal server error", 500) }
InternalServerError == HttpResponse(500, Undefined, "Internal server error")

\* a faulty boundary: what the handler throws is not caught, and the
\* request gets no response
PropagateError == Undefined

HandlerFailure == Some(InternalServerError)

\* the response of fetch once handleDiscordInteraction has returned or
\* thrown
Respond(out, failure) ==
  Served(IF IsDefined(out.response)
           THEN Some(HttpResponse(200, out.response, ""))
           ELSE failure,
         out)

\* the same environment with a KV namespace whose calls reject
FaultyEnv(random, fetchOk) ==
  [kv |-> kv, fetchOk |-> fetchOk, random |-> random, kvOk |-> FALSE]

\* fetch in which nothing catches what the handler throws
fetchUncaught(request, env) ==
  IF request.method # "POST"
    THEN Unhandled(Some(HttpResponse(405, Undefined, "Method not allowed")), env)
  ELSE IF request.text = "unreadable" THEN Unhandled(PropagateError, env)
  ELSE IF ~request.signature \/ ~request.timestamp
    THEN Unhandled(Some(HttpResponse(401, Undefined, "Missing signature headers")), env)
  ELSE IF request.verify = "throws" THEN Unhandled(PropagateError, env)
  ELSE IF request.verify # "valid"
    THEN Unhandled(Some(HttpResponse(401, Undefined, "Invalid signature")), env)
  ELSE IF request.text = "malformed" THEN Unhandled(PropagateError, env)
  ELSE IF request.text = "null" THEN Unhandled(PropagateError, env)
  ELSE Respond(handleDiscordInteraction(request.interaction, env), PropagateError)

\* export default { fetch }: the method check, the signature check, the
\* parse of the body and the handler, all inside one try whose catch answers
\* 500.  JSON.parse throws on a malformed body; a body that parses to null
\* makes handleDiscordInteraction throw at interaction.type.
fetch(request, env) ==
  IF request.method # "POST"
    THEN Unhandled(Some(HttpResponse(405, Undefined, "Method not allowed")), env)
  ELSE IF request.text = "unreadable" THEN Unhandled(HandlerFailure, env)
  ELSE IF ~request.signature \/ ~request.timestamp
    THEN Unhandled(Some(HttpResponse(401, Undefined, "Missing signature headers")), env)
  ELSE IF request.verify = "throws" THEN Unhandled(HandlerFailure, env)
  ELSE IF request.verify # "valid"
    THEN Unhandled(Some(HttpResponse(401, Undefined, "Invalid signature")), env)
  ELSE IF request.text = "malformed" THEN Unhandled(HandlerFailure, env)
  ELSE IF request.text = "null" THEN Unhandled(HandlerFailure, env)
  ELSE Respond(handleDiscordInteraction(request.interaction, env), HandlerFailure)

Init ==
  /\ kv = <<>>
  /\ msgs = <<>>
  /\ lastEvent = NoEvent
  /\ lastResponse = Undefined
  /\ effects = NoEffects
  /\ http = Undefined
  /\ searched = NotSearched
  /\ scored = NotScored

\* what every request step records
Record(event, served) ==
  /\ lastEvent' = event
  /\ lastResponse' = served.out.response
  /\ effects' = [fetches |-> served.out.fetches, gets |-> served.out.gets,
                 puts |-> served.out.puts]
  /\ kv' = served.out.kv
  /\ http' = served.http
  /\ UNCHANGED <<searched, scored>>

Sids == {msgs[k].sid : k \in 1..Len(msgs)}

\* the message a command's response creates when it stored a session
Post(limit, sid, query, out) ==
  IF out.puts > 0 /\ KvKey(sid) \in DOMAIN out.kv
    THEN /\ Len(msgs) < limit
         /\ sid \notin Sids
         /\ msgs' = Append(msgs, [sid |-> sid, query |-> ValueOf(query),
                                  data |-> ValueOf(ValueOf(out.response).data)])
    ELSE msgs' = msgs

\* the request goes through fetch, and Discord shows what it answers
HandleWithin(limit, event, served, sid, slot) ==
  /\ Record(event, served)
  /\ IF event.interaction.type = APPLICATION_COMMAND
       THEN Post(limit, sid, event.interaction.query, served.out)
     ELSE IF slot > 0
            /\ IsDefined(served.out.response)
            /\ ValueOf(served.out.response).type = UPDATE_MESSAGE
       THEN msgs' = [msgs EXCEPT
                       ![slot].data = ValueOf(ValueOf(served.out.response).data)]
     ELSE msgs' = msgs

Handle(event, served, sid, slot) ==
  HandleWithin(MaxSessions, event, served, sid, slot)

\* the event of an interaction and what fetch does with its request
Request(interaction, src, slot, random, fetchOk, sid) ==
  Handle(Event(interaction, src, slot, fetchOk),
         fetch(SignedPost(interaction), Env(random, fetchOk)), sid, slot)

\* a slash command.  A response that carries components is a new message;
\* Math.random gives a suffix no earlier message drew
Command(name, query, userId, random, fetchOk) ==
  /\ Request(Interaction(APPLICATION_COMMAND, name, query, Undefined, Undefined,
                         userId),
             "command", 0, Some(random), fetchOk, GenerateSearchId(userId, random))

\* the components of the message in slot
ComponentsOf(slot) ==
  LET rows == ValueOf(msgs[slot].data.components)
  IN Concat([r \in 1..Len(rows) |-> rows[r].components])

\* the user presses an enabled button of a message; an UPDATE_MESSAGE
\* response edits the message in place
Press(slot, c) ==
  /\ ComponentsOf(slot)[c].type = BUTTON
  /\ ~ComponentsOf(slot)[c].disabled
  /\ Request(Interaction(MESSAGE_COMPONENT, Undefined, Undefined,
                         Some(ComponentsOf(slot)[c].custom_id), Undefined,
                         Undefined),
             "ui", slot, Undefined, TRUE, <<>>)

\* the user chooses an option of a message's select menu
Choose(slot, c, o) ==
  /\ ComponentsOf(slot)[c].type = SELECT_MENU
  /\ Request(Interaction(MESSAGE_COMPONENT, Undefined, Undefined,
                         Some(ComponentsOf(slot)[c].custom_id),
                         Some(<<ComponentsOf(slot)[c].options[o].value>>),
                         Undefined),
             "ui", slot, Undefined, TRUE, <<>>)

\* component events no message offers: handles with a bad index, values
\* without separators, unknown components, sessions that never existed
StaleHandles(sid) ==
  {PrevPrefix \o sid \o <<"_","0">>, NextPrefix \o sid \o <<"_","9">>,
   NextPrefix \o sid \o <<"_","x">>, NextPrefix \o sid \o <<"_">>}

StaleValues == {Undefined, Some(<<>>), Some(<<<<"a","b","c">>>>), Some(<<<<"a","|","b","|","9">>>>)}

StaleEvents ==
  UNION {
    {Interaction(MESSAGE_COMPONENT, Undefined, Undefined, Some(h), Undefined,
                 Undefined) : h \in StaleHandles(sid)}
    \cup {Interaction(MESSAGE_COMPONENT, Undefined, Undefined,
                      Some(SelectPrefix \o sid), v, Undefined) : v \in StaleValues}
    : sid \in Sids }
  \cup {Interaction(MESSAGE_COMPONENT, Undefined, Undefined, Some(h), v, Undefined) :
          <<h, v>> \in {<<ListPrefix \o GhostId, Undefined>>,
                        <<NextPrefix \o GhostId \o <<"_","0">>, Undefined>>,
                        <<SelectPrefix \o GhostId, Some(<<<<"a","|","b","|","0">>>>)>>,
                        <<PrevPrefix \o <<"n","o","u","n","d","e","r","s","c","o","r","e">>, Undefined>>,
                        <<<<"f","o","o">>, Undefined>>}}
  \cup {Interaction(MESSAGE_COMPONENT, Undefined, Undefined, Undefined, Undefined,
                    Undefined)}

Stale(interaction) ==
  /\ Request(interaction, "stale", 0, Undefined, TRUE, <<>>)

\* a PING, whatever else the event carries
PingEvents ==
  {Interaction(PING, Undefined, Undefined, Undefined, Undefined, Undefined),
   Interaction(PING, Some("packages"), Some(<<"l","s","p">>),
               Some(ListPrefix \o GhostId), Some(<<<<"a","|","b","|","0">>>>), Undefined)}

Ping(interaction) ==
  /\ Request(interaction, "ping", 0, Undefined, TRUE, <<>>)

\* time passes: half the TTL
TickSeconds == ExpirationTtl \div 2

Tick ==
  /\ kv # <<>>
  /\ kv' = KvElapse(kv, TickSeconds)
  /\ msgs' = msgs
  /\ lastEvent' = NoEvent
  /\ lastResponse' = Undefined
  /\ effects' = NoEffects
  /\ http' = Undefined
  /\ UNCHANGED <<searched, scored>>

Next ==
  \/ \E input \in CommandInputs, random \in RandomSuffixes :
       Command(input[1], input[2], input[3], random, input[4])
  \/ \E slot \in 1..Len(msgs) :
       \E c \in 1..Len(ComponentsOf(slot)) : Press(slot, c)
  \/ \E slot \in 1..Len(msgs) :
       \E c \in 1..Len(ComponentsOf(slot)) :
         \E o \in 1..Len(ComponentsOf(slot)[c].options) : Choose(slot, c, o)
  \/ \E interaction \in StaleEvents : Stale(interaction)
  \/ \E interaction \in PingEvents : Ping(interaction)
  \/ Tick

Spec == Init /\ [][Next]_vars

(***************************************************************************)
(* Two users search side by side: the same commands, presses and choices,  *)
(* with room for a second session.                                         *)
(***************************************************************************)
MaxPairSessions == 2

\* the searches of the two users: <<query, userId>>
PairInputs ==
  {<<Some(<<"g","i","t">>), Undefined>>,
   <<Some(<<"g","i","t">>), User>>,
   <<Some(<<"l">>), User>>}

\* a packages command of one of the two users
PairSearch(query, userId, random) ==
  /\ HandleWithin(MaxPairSessions,
                  Event(Interaction(APPLICATION_COMMAND, Some("packages"), query,
                                    Undefined, Undefined, userId),
                        "command", 0, TRUE),
                  fetch(SignedPost(Interaction(APPLICATION_COMMAND, Some("packages"),
                                               query, Undefined, Undefined, userId)),
                        Env(Some(random), TRUE)),
                  GenerateSearchId(userId, random), 0)

\* a second click that carries the handle and the values of the component
\* event before it: a double click, or a click sent before the message was
\* edited
Repeat ==
  /\ lastEvent.src \in {"ui", "again"}
  /\ Request(lastEvent.interaction, "again", lastEvent.slot, Undefined, TRUE, <<>>)

PairNext ==
  \/ \E input \in PairInputs, random \in RandomSuffixes :
       PairSearch(input[1], input[2], random)
  \/ Repeat
  \/ \E slot \in 1..Len(msgs) :
       \E c \in 1..Len(ComponentsOf(slot)) : Press(slot, c)
  \/ \E slot \in 1..Len(msgs) :
       \E c \in 1..Len(ComponentsOf(slot)) :
         \E o \in 1..Len(ComponentsOf(slot)[c].options) : Choose(slot, c, o)
  \/ Tick

PairSpec == Init /\ [][PairNext]_vars

(***************************************************************************)
(* Faults: the KV namespace rejects the calls of a request, or the request *)
(* is not a signed POST of an interaction.                                 *)
(***************************************************************************)
\* the request of an interaction while the KV namespace is down
Failing(interaction, src, slot, random, fetchOk, sid) ==
  Handle([Event(interaction, src, slot, fetchOk) EXCEPT !.kvOk = FALSE],
         fetch(SignedPost(interaction), FaultyEnv(random, fetchOk)), sid, slot)

CommandOutage(name, query, userId, random, fetchOk) ==
  /\ Failing(Interaction(APPLICATION_COMMAND, name, query, Undefined, Undefined,
                         userId),
             "command", 0, Some(random), fetchOk, GenerateSearchId(userId, random))

PressOutage(slot, c) ==
  /\ ComponentsOf(slot)[c].type = BUTTON
  /\ ~ComponentsOf(slot)[c].disabled
  /\ Failing(Interaction(MESSAGE_COMPONENT, Undefined, Undefined,
                         Some(ComponentsOf(slot)[c].custom_id), Undefined,
                         Undefined),
             "ui", slot, Undefined, TRUE, <<>>)

ChooseOutage(slot, c, o) ==
  /\ ComponentsOf(slot)[c].type = SELECT_MENU
  /\ Failing(Interaction(MESSAGE_COMPONENT, Undefined, Undefined,
                         Some(ComponentsOf(slot)[c].custom_id),
                         Some(<<ComponentsOf(slot)[c].options[o].value>>),
                         Undefined),
             "ui", slot, Undefined, TRUE, <<>>)

\* the requests fetch answers without an interaction to handle: another
\* method, missing headers, a signature verifyKey refuses or chokes on, a
\* body that cannot be read or parsed, a body that is the JSON text null
BadRequests ==
  {HttpRequest("GET", TRUE, TRUE, "valid", "json", NoEvent.interaction),
   HttpRequest("GET", FALSE, FALSE, "invalid", "unreadable", NoEvent.interaction),
   HttpRequest("POST", FALSE, TRUE, "valid", "json", NoEvent.interaction),
   HttpRequest("POST", TRUE, FALSE, "valid", "json", NoEvent.interaction),
   HttpRequest("POST", FALSE, FALSE, "valid", "unreadable", NoEvent.interaction),
   HttpRequest("POST", TRUE, TRUE, "valid", "unreadable", NoEvent.interaction),
   HttpRequest("POST", TRUE, TRUE, "invalid", "json", NoEvent.interaction),
   HttpRequest("POST", TRUE, TRUE, "invalid", "malformed", NoEvent.interaction),
   HttpRequest("POST", TRUE, TRUE, "throws", "json", NoEvent.interaction),
   HttpRequest("POST", TRUE, TRUE, "valid", "malformed", NoEvent.interaction),
   HttpRequest("POST", TRUE, TRUE, "valid", "null", NoEvent.interaction)}

Reject(request) ==
  /\ Handle([Event(NoEvent.interaction, "rejected", 0, TRUE) EXCEPT
               !.request = [method |-> request.method,
                            signature |-> request.signature,
                            timestamp |-> request.timestamp,
                            verify |-> request.verify, text |-> request.text]],
            fetch(request, Env(Undefined, TRUE)), <<>>, 0)

FaultNext ==
  \/ Next
  \/ \E input \in CommandInputs, random \in RandomSuffixes :
       CommandOutage(input[1], input[2], input[3], random, input[4])
  \/ \E slot \in 1..Len(msgs) :
       \E c \in 1..Len(ComponentsOf(slot)) : PressOutage(slot, c)
  \/ \E slot \in 1..Len(msgs) :
       \E c \in 1..Len(ComponentsOf(slot)) :
         \E o \in 1..Len(ComponentsOf(slot)[c].options) : ChooseOutage(slot, c, o)
  \/ \E request \in BadRequests : Reject(request)

FaultSpec == Init /\ [][FaultNext]_vars

(***************************************************************************)
(* searchPackages and calculateRelevance on their own: the inputs are      *)
(* drawn at the start, and a step runs the function on them.               *)
(***************************************************************************)
\* a catalog with more entries than a search returns, most of them with
\* the same score for the query lsp: nine packages in two repositories, then
\* a lower scoring package, then libraries, one of them named lsp
TiedCatalog ==
  [packages_cache |-> <<
     <<<<"r","1">>, <<
        Package(<<"l","s","p","a">>, <<"x">>, <<<<"t","o","m">>>>, Some(<<<<"l","s","p">>>>), <<>>),
        Package(<<"l","s","p","b">>, <<"x">>, <<<<"t","o","m">>>>, Some(<<<<"l","s","p">>>>), <<>>),
        Package(<<"l","s","p","c">>, <<"x">>, <<<<"t","o","m">>>>, Some(<<<<"l","s","p">>>>), <<>>),
        Package(<<"l","s","p","d">>, <<"x">>, <<<<"t","o","m">>>>, Some(<<<<"l","s","p">>>>), <<>>),
        Package(<<"l","s","p","e">>, <<"x">>, <<<<"t","o","m">>>>, Some(<<<<"l","s","p">>>>), <<>>) >> >>,
     <<<<"r","2">>, <<
        Package(<<"l","s","p","f">>, <<"x">>, <<<<"t","o","m">>>>, Some(<<<<"l","s","p">>>>), <<>>),
        Package(<<"l","s","p","g">>, <<"x">>, <<<<"t","o","m">>>>, Some(<<<<"l","s","p">>>>), <<>>),
        Package(<<"l","s","p","h">>, <<"x">>, <<<<"t","o","m">>>>, Some(<<<<"l","s","p">>>>), <<>>),
        Package(<<"l","s","p","i">>, <<"x">>, <<<<"t","o","m">>>>, Some(<<<<"l","s","p">>>>), <<>>),
        Package(<<"z","e","d">>, <<"o","n"," ","l","s","p">>, <<<<"t","o","m">>>>, Some(<<<<"l","s","p">>>>), <<>>) >> >> >>,
   libraries_cache |-> <<
     <<<<"r","1">>, <<
        Library(<<"l","s","p","j">>, <<"x">>, <<"t","o","m">>, <<>>),
        Library(<<"l","s","p","k">>, <<"x">>, <<"t","o","m">>, <<>>),
        Library(<<"l","s","p">>, <<"x">>, <<"t","o","m">>, <<>>),
        Library(<<"l","s","p","l">>, <<"x">>, <<"t","o","m">>, <<>>) >> >> >>]

\* the catalog of the documented scenarios: LSP, LSP-json and ThemePro
ScenarioCatalog ==
  [packages_cache |-> <<
     <<<<"p","c">>, <<
        Package(<<"L","S","P">>,
                <<"L","a","n","g","u","a","g","e"," ","S","e","r","v","e","r"," ","P","r","o","t","o","c","o","l"," ","c","l","i","e","n","t">>,
                <<<<"t","o","m">>>>, Some(<<<<"l","s","p">>>>), <<>>),
        Package(<<"L","S","P","-","j","s","o","n">>,
                <<"J","S","O","N"," ","s","u","p","p","o","r","t"," ","f","o","r"," ","L","S","P">>,
                <<<<"t","o","m">>>>, Some(<<<<"l","s","p">>>>), <<>>),
        Package(<<"T","h","e","m","e","P","r","o">>,
                <<"P","r","o"," ","c","o","l","o","r","s">>,
                <<<<"A","l","i","c","e"," ","B">>>>,
                Some(<<<<"s","n","i","p","p","e","t","s">>,
                       <<"c","o","l","o","r">>>>), <<>>) >> >> >>,
   libraries_cache |-> <<>>]

Catalogs == {ChannelData, TiedCatalog, ScenarioCatalog}

SearchQueries ==
  {<<"a","u","t","h","o","r",":","a","l","i","c","e"," ","l","a","b","e","l",":","s","n","i","p","p","e","t","s"," ","t","h","e","m","e">>,
   <<"l","s","p">>,
   <<"L","S","P">>,
   <<"g","i","t">>,
   <<"a","u","t","h","o","r",":","t","o","m">>,
   <<"a","u","t","h","o","r",":","a","n","n">>,
   <<"a","u","t","h","o","r",":","A","n","n"," ","g","i","t">>,
   <<"l","a","b","e","l",":","l","s","p">>,
   <<"l","a","b","e","l",":","l","s","p"," ","l","s","p">>,
   <<"a","u","t","h","o","r",":","t","o","m"," ","l","a","b","e","l",":","l","s","p">>,
   <<"a","u","t","h","o","r",":","t","o","m"," ","l","a","b","e","l",":","j","s","o","n"," ","l","s","p">>,
   <<"l","a","b","e","l",":","v","c","s">>,
   <<"z","z">>,
   <<"/","^","G","i","t","/">>,
   <<"l",".","p">>,
   <<"a","u","t","h","o","r",":","k","i","r">>,
   <<"y","a","m","l">>,
   <<"A","u","t","h","o","r",":","J","O","N">>,
   <<"l","a","b","e","l",":","z","z">>,
   <<"j","s","o","n">>,
   <<"g">>,
   <<"a","u","t","h","o","r",":","t","o","m"," ","l","s","p">>,
   <<"l","a","b","e","l",":","L","S","P"," ","g","i","t">>,
   <<"a","u","t","h","o","r",":","o">>,
   <<"p">>,
   <<"s">>,
   <<"(">>,
   <<"u","t","i","l","s">>,
   <<"A","u","t","h","o","r",":","J","O","N"," ","a","u","t","h","o","r",":","t","o","m">>,
   <<"a","u","t","h","o","r",":","t","o","m"," ","A","U","T","H","O","R",":","a","n","n"," ","l","s","p">>,
   <<"l","a","b","e","l",":","a"," ","L","A","B","E","L",":","l","s","p">>,
   <<"A","u","t","h","o","r",":","t","o","m">>,
   <<"f","o","o",":","b","a","r"," ","l","s","p">>,
   <<"l","s","p"," ","f","o","o",":","b","a","r"," ","a","u","t","h","o","r",":","t","o","m">>,
   <<"l","s","p"," ","a","u","t","h","o","r",":","t","o","m"," ","g","i","t">>}

EntryNames ==
  {<<"t",".">>,
   <<"t",".","x">>,
   <<"t","e","t",".">>,
   <<"g","i","t">>,
   <<"G","i","t">>,
   <<"G","i","t","G","u","t","t","e","r">>,
   <<"m","y","-","g","i","t">>,
   <<"a","-","v","e","r","y","-","l","o","n","g","-","n","a","m","e","-","w","i","t","h","-","g","i","t">>,
   <<"g","i","t","-","a","-","v","e","r","y","-","l","o","n","g","-","n","a","m","e","-","x","x">>,
   <<"a","b","c">>,
   <<"G","I","T","-","x">>,
   <<"L","S","P">>,
   <<"a">>}

EntryDescriptions ==
  {<<"x">>,
   <<"g","i","t"," ","t","o","o","l","s">>,
   <<"t","."," ","e">>}

TextQueries ==
  {<<"g","i","t">>,
   <<"G","I","T">>,
   <<"t",".">>,
   <<"z","z">>,
   <<"g","i">>,
   <<"g">>,
   <<"L","S","P">>,
   <<"/","^","L","S","P","/">>,
   <<"a",".","b">>,
   <<"/","/">>,
   <<"/","a","/">>,
   <<"/","a","b">>,
   <<"g",".","t">>,
   <<"^","g","i","t">>,
   <<"g","i","t","$">>,
   <<"/","g","i","t","/">>}

\* the regexPattern searchPackages hands to calculateRelevance for a text
\* query
RegexPatternOf(textQuery) ==
  IF isRegexPattern(textQuery) THEN RegExpCompile(StripSlashes(textQuery))
  ELSE Null

\* calculateRelevance as searchPackages calls it for a text query
Relevance(name, description, textQuery) ==
  calculateRelevance(name, description, textQuery, RegexPatternOf(textQuery))

SearchInit ==
  /\ kv = <<>>
  /\ msgs = <<>>
  /\ lastEvent = NoEvent
  /\ lastResponse = Undefined
  /\ effects = NoEffects
  /\ http = Undefined
  /\ \/ /\ searched \in [catalog : Catalogs, query : SearchQueries,
                          filters : {Undefined}, channelData : {Undefined},
                          found : {Undefined}]
        /\ scored = NotScored
     \/ /\ searched = NotSearched
        /\ scored \in [name : EntryNames, description : EntryDescriptions,
                        searchTerm : TextQueries, isRegexQuery : {Undefined},
                        score : {Undefined}]

\* packageService.searchPackages(query) on the catalog, with the filters it
\* parses from the query
RunSearch ==
  /\ searched # NotSearched
  /\ ~IsDefined(searched.found)
  /\ searched' = [searched EXCEPT
                    !.filters = Some(parseSearchQuery(trim(searched.query))),
                    !.channelData =
                      Some(ChannelDataAfter(searched.catalog,
                             parseSearchQuery(trim(searched.query)))),
                    !.found = Some(searchPackages(searched.query,
                                                  searched.catalog, TRUE))]
  /\ UNCHANGED <<kv, msgs, lastEvent, lastResponse, effects, http, scored>>

\* isRegexQuery = this.isRegexPattern(filters.textQuery), then
\* this.calculateRelevance(name, description, filters.textQuery, regexPattern)
RunScore ==
  /\ scored # NotScored
  /\ ~IsDefined(scored.score)
  /\ scored' = [scored EXCEPT
                  !.isRegexQuery = Some(isRegexPattern(scored.searchTerm)),
                  !.score = Some(Relevance(scored.name, scored.description,
                                           scored.searchTerm))]
  /\ UNCHANGED <<kv, msgs, lastEvent, lastResponse, effects, http, searched>>

SearchNext == RunSearch \/ RunScore

SearchSpec == SearchInit /\ [][SearchNext]_vars

FairSpec == Spec /\ WF_vars(Tick)

(***************************************************************************)
(* What the last step showed.                                              *)
(***************************************************************************)
LastData == ValueOf(ValueOf(lastResponse).data)

ShowsEmbeds ==
  /\ IsDefined(lastResponse)
  /\ IsDefined(ValueOf(lastResponse).data)
  /\ IsDefined(LastData.embeds)
  /\ IsDefined(LastData.components)

LastEmbeds == ValueOf(LastData.embeds)

LastComponents == ValueOf(LastData.components)

ShowsKind(kind) ==
  ShowsEmbeds /\ Len(LastEmbeds) = 1 /\ LastEmbeds[1].kind = kind

ShowsDetail == ShowsKind("detail")

\* the buttons of the one row under an item detail
LastRow == LastComponents[1].components

\* the expired-session view: an in-place update with one error embed that
\* asks to search again, and no components
IsExpiredView ==
  /\ ShowsKind("error")
  /\ ValueOf(lastResponse).type = UPDATE_MESSAGE
  /\ LastEmbeds[1].text \in {ExpiredText, ExpiredOrGoneText}
  /\ Len(LastComponents) = 0

IsNavigation(customId) ==
  startsWith(customId, PrevPrefix) \/ startsWith(customId, NextPrefix)

\* the component events that name a session: a choice of the menu, Previous,
\* Next, All Packages
IsSessionEvent(interaction) ==
  /\ interaction.type = MESSAGE_COMPONENT
  /\ IsDefined(interaction.custom_id)
  /\ \/ /\ startsWith(ValueOf(interaction.custom_id), SelectPrefix)
        /\ HasSelectedValue(interaction)
     \/ IsNavigation(ValueOf(interaction.custom_id))
     \/ startsWith(ValueOf(interaction.custom_id), ListPrefix)

\* the session id such an event decodes to
SessionIdOf(interaction) ==
  IF startsWith(ValueOf(interaction.custom_id), SelectPrefix)
    THEN replaceFirst(ValueOf(interaction.custom_id), SelectPrefix)
  ELSE IF IsNavigation(ValueOf(interaction.custom_id))
    THEN NavSearchId(Remaining(ValueOf(interaction.custom_id)))
  ELSE replaceFirst(ValueOf(interaction.custom_id), ListPrefix)

IsLive(searchId) == KvKey(searchId) \in DOMAIN kv

StoredResults(searchId) == kv[KvKey(searchId)].value

\* the index a navigation or selection event asks for: NaN when it does not
\* decode
TargetIndex(interaction) ==
  IF startsWith(ValueOf(interaction.custom_id), SelectPrefix)
    THEN parseInt(IndexStr(ValueOf(interaction.values)[1]))
  ELSE NewIndex(startsWith(ValueOf(interaction.custom_id), PrevPrefix),
                CurrentIndex(Remaining(ValueOf(interaction.custom_id))))

\* the index the handles of the shown item detail carry
ShownIndex == CurrentIndex(Remaining(LastRow[2].custom_id))

ShownSession == replaceFirst(LastRow[3].custom_id, ListPrefix)

(***************************************************************************)
(* C1.  Every item detail shown for index i of a session with len results  *)
(* (by the search, by Previous/Next or by a choice of the menu) has        *)
(* Previous disabled iff i = 0 and Next disabled iff i = len - 1.          *)
(***************************************************************************)
C1_PaginationButtons ==
  ShowsDetail =>
    /\ Len(LastComponents) = 1
    /\ Len(LastRow) = 3
    /\ IsLive(ShownSession)
    /\ ~IsNaN(ShownIndex)
    /\ CurrentIndex(Remaining(LastRow[1].custom_id)) = ShownIndex
    /\ LastEmbeds[1].position = ValueOf(ShownIndex) + 1
    /\ LastEmbeds[1].total = Len(StoredResults(ShownSession))
    /\ LastRow[1].disabled <=> (ValueOf(ShownIndex) = 0)
    /\ LastRow[2].disabled
         <=> (ValueOf(ShownIndex) = Len(StoredResults(ShownSession)) - 1)
    /\ ~LastRow[3].disabled

\* Next was pressed until the last result: Previous enabled, Next disabled
C1_Witness ==
  /\ ShowsDetail
  /\ lastEvent.src = "ui"
  /\ startsWith(ValueOf(lastEvent.interaction.custom_id), NextPrefix)
  /\ ValueOf(ShownIndex) = Len(StoredResults(ShownSession)) - 1
  /\ LastRow[2].disabled
  /\ ~LastRow[1].disabled

(***************************************************************************)
(* C2.  Cursor invariant: a press of an enabled button or a choice of an   *)
(* offered option, made while the session of the message is live, never    *)
(* reaches the expired view, and the item detail it shows carries an index *)
(* i with 0 <= i < len.                                                    *)
(***************************************************************************)
C2_CursorInvariant ==
  (lastEvent.src = "ui" /\ IsLive(msgs[lastEvent.slot].sid)) =>
    /\ ~IsExpiredView
    /\ ShowsDetail =>
         /\ ~IsNaN(ShownIndex)
         /\ ValueOf(ShownIndex) >= 0
         /\ ValueOf(ShownIndex) < Len(StoredResults(msgs[lastEvent.slot].sid))

(***************************************************************************)
(* C3.  A Next, Previous, All Packages or selection event whose decoded    *)
(* session id has no entry in the store gets the expired-session view: an  *)
(* in-place update with an error embed asking to search again and no       *)
(* components.  The handler returns; it does not throw.                    *)
(***************************************************************************)
C3_StoreMissIsExpiredView ==
  (/\ IsSessionEvent(lastEvent.interaction)
   /\ ~IsLive(SessionIdOf(lastEvent.interaction)))
    => IsExpiredView

\* a button of a message whose session has expired was pressed
C3_Witness ==
  /\ lastEvent.src = "ui"
  /\ IsSessionEvent(lastEvent.interaction)
  /\ SessionIdOf(lastEvent.interaction) = msgs[lastEvent.slot].sid
  /\ ~IsLive(SessionIdOf(lastEvent.interaction))
  /\ IsExpiredView

(***************************************************************************)
(* C4.  Every decode failure of a component event (a navigation handle     *)
(* with no underscore or with a missing or non-numeric index, a selection  *)
(* with no selected value or with a value that lacks the separators) gets  *)
(* the "search results expired, please search again" message.              *)
(***************************************************************************)
DecodeFails(interaction) ==
  /\ interaction.type = MESSAGE_COMPONENT
  /\ IsDefined(interaction.custom_id)
  /\ \/ /\ startsWith(ValueOf(interaction.custom_id), SelectPrefix)
        /\ \/ ~HasSelectedValue(interaction)
           \/ ~IsDefined(IndexStr(ValueOf(interaction.values)[1]))
     \/ /\ IsNavigation(ValueOf(interaction.custom_id))
        /\ \/ lastIndexOf(Remaining(ValueOf(interaction.custom_id)), "_") = -1
           \/ IsNaN(CurrentIndex(Remaining(ValueOf(interaction.custom_id))))

C4_DecodeFailureIsExpiredView ==
  DecodeFails(lastEvent.interaction) => IsExpiredView

(***************************************************************************)
(* C5.  A Next/Previous event whose new index, or a selection whose index, *)
(* lies outside [0, len) of a live session renders no result and is not    *)
(* clamped: the response is the expired message with no components.        *)
(***************************************************************************)
IsOutOfRange(interaction) ==
  /\ IsSessionEvent(interaction)
  /\ ~startsWith(ValueOf(interaction.custom_id), ListPrefix)
  /\ IsLive(SessionIdOf(interaction))
  /\ ~IsNaN(TargetIndex(interaction))
  /\ \/ ValueOf(TargetIndex(interaction)) < 0
     \/ ValueOf(TargetIndex(interaction))
          >= Len(StoredResults(SessionIdOf(interaction)))

C5_OutOfRangeIsExpiredView ==
  IsOutOfRange(lastEvent.interaction) => IsExpiredView

\* Previous at index 0 of a live session
C5_Witness ==
  /\ IsOutOfRange(lastEvent.interaction)
  /\ ValueOf(TargetIndex(lastEvent.interaction)) = -1
  /\ IsExpiredView

(***************************************************************************)
(* C6.  A search command writes a session iff the search returns more than *)
(* one result.  No result: the no-results view; one result: that item;     *)
(* both without a store write and without components.  Several results:    *)
(* the session is stored and the detail of the first result is shown.      *)
(***************************************************************************)
\* what the search gives for the query of a packages command
Found(event) ==
  Search(ValueOf(event.interaction.query), event.fetchOk)

IsSearch(event) ==
  /\ event.src = "command"
  /\ event.interaction.name = Some("packages")
  /\ IsDefined(event.interaction.query)
  /\ ValueOf(event.interaction.query) # <<>>
  /\ Found(event).ok

\* the step stores results under a new session id and shows the detail of
\* the first result, its handles carrying the id and index 0
C6_Stored(sid, results) ==
  /\ ~IsLive(sid)
  /\ DOMAIN kv' = DOMAIN kv \cup {KvKey(sid)}
  /\ kv'[KvKey(sid)].value = JSONStringify(results)
  /\ \A k \in DOMAIN kv : kv'[k] = kv[k]
  /\ ShowsKind("detail")'
  /\ LastEmbeds'[1].item = Some(results[1])
  /\ LastEmbeds'[1].position = 1
  /\ LastEmbeds'[1].total = Len(results)
  /\ Len(LastComponents') = 1
  /\ LastRow' = <<Button(PrevPrefix \o sid \o <<"_", "0">>, TRUE),
                  Button(NextPrefix \o sid \o <<"_", "0">>, FALSE),
                  Button(ListPrefix \o sid, FALSE)>>

\* what the step of a search that found results must do
C6_Outcome(results) ==
  /\ ShowsEmbeds'
  /\ ValueOf(lastResponse').type = CHANNEL_MESSAGE_WITH_SOURCE
  /\ (kv' # kv) <=> (Len(results) > 1)
  /\ effects'.puts = (IF Len(results) > 1 THEN 1 ELSE 0)
  /\ Len(results) = 0 =>
       /\ LastEmbeds' = <<NoResultsEmbed>>
       /\ Len(LastComponents') = 0
  /\ Len(results) = 1 =>
       /\ LastEmbeds' = <<Embed("result", "", Some(results[1]), 0, 0, <<>>)>>
       /\ Len(LastComponents') = 0
  /\ Len(results) > 1 =>
       /\ Len(msgs') = Len(msgs) + 1
       /\ C6_Stored(msgs'[Len(msgs')].sid, results)

C6_SearchStep == IsSearch(lastEvent') => C6_Outcome(Found(lastEvent').results)

C6_StoreWriteIffSeveralResults == [][C6_SearchStep]_vars

\* a search with exactly one result: shown directly, nothing stored
C6_Witness ==
  /\ IsSearch(lastEvent)
  /\ Len(Found(lastEvent).results) = 1
  /\ effects.puts = 0
  /\ Len(LastEmbeds) = 1
  /\ LastEmbeds[1].kind = "result"

(***************************************************************************)
(* C7.  Every session is stored with a TTL of 900 seconds and nothing      *)
(* deletes or updates it: while it is there the store holds exactly what   *)
(* was put, it goes only when its TTL has elapsed, it stays absent ever    *)
(* after, the events that name it then get the expired view, and every     *)
(* session eventually expires.                                             *)
(***************************************************************************)
SessionKeys ==
  {KvKey(GenerateSearchId(userId, random)) :
     userId \in {User, Undefined}, random \in RandomSuffixes}

C7_StoreStep ==
  /\ \A k \in DOMAIN kv' \ DOMAIN kv : kv'[k].ttl = 900
  /\ \A k \in DOMAIN kv \cap DOMAIN kv' :
       /\ kv'[k].value = kv[k].value
       /\ kv'[k].ttl <= kv[k].ttl
  /\ \A k \in DOMAIN kv \ DOMAIN kv' : kv[k].ttl <= TickSeconds /\ lastEvent' = NoEvent
  /\ \A k \in {KvKey(sid) : sid \in Sids} \ DOMAIN kv : k \notin DOMAIN kv'

C7_SessionsExpire ==
  /\ [][C7_StoreStep]_vars
  /\ [](\A sid \in Sids :
          (/\ ~IsLive(sid)
           /\ IsSessionEvent(lastEvent.interaction)
           /\ SessionIdOf(lastEvent.interaction) = sid) => IsExpiredView)
  /\ \A k \in SessionKeys : (k \in DOMAIN kv) ~> (k \notin DOMAIN kv)

\* the menu of a message was used after its session had expired
C7_Witness ==
  /\ lastEvent.src = "ui"
  /\ startsWith(ValueOf(lastEvent.interaction.custom_id), SelectPrefix)
  /\ HasSelectedValue(lastEvent.interaction)
  /\ ~IsLive(msgs[lastEvent.slot].sid)
  /\ IsExpiredView

(***************************************************************************)
(* C8.  Handling a component event reads the store at most once and never  *)
(* writes or deletes: the store is the same after the event as before.     *)
(***************************************************************************)
C8_ComponentStep ==
  lastEvent'.interaction.type = MESSAGE_COMPONENT =>
    /\ kv' = kv
    /\ effects'.gets <= 1
    /\ effects'.puts = 0
    /\ effects'.fetches = 0

C8_ComponentEventsLeaveStore == [][C8_ComponentStep]_vars

\* All Packages on a live session: one read, the overview shown
C8_Witness ==
  /\ lastEvent.src = "ui"
  /\ startsWith(ValueOf(lastEvent.interaction.custom_id), ListPrefix)
  /\ ShowsKind("overview")
  /\ effects.gets = 1
  /\ IsLive(msgs[lastEvent.slot].sid)

(***************************************************************************)
(* C9.  Every response to a command has type 4 and every response to a     *)
(* component event has type 7, the error and unknown-component responses   *)
(* included.                                                               *)
(***************************************************************************)
C9_ResponseTypes ==
  /\ lastEvent.interaction.type = APPLICATION_COMMAND =>
       /\ IsDefined(lastResponse)
       /\ ValueOf(lastResponse).type = CHANNEL_MESSAGE_WITH_SOURCE
  /\ lastEvent.interaction.type = MESSAGE_COMPONENT =>
       /\ IsDefined(lastResponse)
       /\ ValueOf(lastResponse).type = UPDATE_MESSAGE

(***************************************************************************)
(* C10.  A PING is answered with a PONG (type 1, no data) and nothing      *)
(* else happens: no catalog fetch, no store read or write, whatever else   *)
(* the event carries.                                                      *)
(***************************************************************************)
C10_PingStep ==
  lastEvent'.interaction.type = PING =>
    /\ IsDefined(lastResponse')
    /\ ValueOf(lastResponse').type = PONG
    /\ ~IsDefined(ValueOf(lastResponse').data)
    /\ effects' = NoEffects
    /\ kv' = kv
    /\ msgs' = msgs

C10_PingIsPong == [][C10_PingStep]_vars

\* a PING that carries a command name and a component id
C10_Witness ==
  /\ lastEvent.interaction.type = PING
  /\ IsDefined(lastEvent.interaction.name)
  /\ IsDefined(lastEvent.interaction.custom_id)
  /\ IsDefined(lastResponse)
  /\ ValueOf(lastResponse).type = PONG
  /\ effects = NoEffects

(***************************************************************************)
(* C11.  When the read of the session store fails while a Next, Previous   *)
(* or All Packages event is handled, the request still gets a well-formed  *)
(* response envelope: a response with a type and data.                     *)
(***************************************************************************)
\* a Next, Previous or All Packages event handled while the store is down
IsFailedRead(event) ==
  /\ ~event.kvOk
  /\ event.interaction.type = MESSAGE_COMPONENT
  /\ IsDefined(event.interaction.custom_id)
  /\ \/ IsNavigation(ValueOf(event.interaction.custom_id))
     \/ startsWith(ValueOf(event.interaction.custom_id), ListPrefix)

\* the HTTP response carries a response envelope with a type and data
IsEnvelope ==
  /\ IsDefined(http)
  /\ ValueOf(http).status = 200
  /\ IsDefined(ValueOf(http).json)
  /\ IsDefined(ValueOf(ValueOf(http).json).data)

C11_FailedReadIsEnvelope == IsFailedRead(lastEvent) => IsEnvelope

(***************************************************************************)
(* C12.  Nothing thrown while a request is handled gets past fetch: an     *)
(* exception from reading or parsing the body, from the signature check or *)
(* from the interaction handler gives the generic 500 response, which      *)
(* carries no detail of the error; every request gets one response.        *)
(***************************************************************************)
\* the request gets as far as the signature check
ReachesVerify(request) ==
  /\ request.method = "POST"
  /\ request.text # "unreadable"
  /\ request.signature
  /\ request.timestamp

\* something throws while the request of the event is handled
Throws(event) ==
  \/ event.request.method = "POST" /\ event.request.text = "unreadable"
  \/ ReachesVerify(event.request) /\ event.request.verify = "throws"
  \/ /\ ReachesVerify(event.request)
     /\ event.request.verify = "valid"
     /\ \/ event.request.text \in {"malformed", "null"}
        \/ IsFailedRead(event)

C12_FaultsStopAtFetch ==
  lastEvent.src # "none" =>
    /\ IsDefined(http)
    /\ Throws(lastEvent) <=> (ValueOf(http).status = 500)
    /\ ValueOf(http).status = 500 =>
         http = Some(HttpResponse(500, Undefined, "Internal server error"))
    /\ ValueOf(http).status = 200 <=> IsDefined(lastResponse)
    /\ ValueOf(http).status = 200 => ValueOf(http).json = lastResponse
    /\ ValueOf(http).status \in {200, 401, 405, 500}

\* Next pressed while the store is down: the handler throws, fetch answers
\* 500
C12_Witness ==
  /\ IsFailedRead(lastEvent)
  /\ lastEvent.src = "ui"
  /\ startsWith(ValueOf(lastEvent.interaction.custom_id), NextPrefix)
  /\ ~IsDefined(lastResponse)
  /\ effects.gets = 1
  /\ http = Some(InternalServerError)

(***************************************************************************)
(* The searches and scores that ran on their own.                          *)
(***************************************************************************)
SearchRan == IsDefined(searched.found) /\ ValueOf(searched.found).ok

Results == ValueOf(searched.found).results

Filters == parseSearchQuery(trim(searched.query))

\* the entries of the catalog in the order the two loops visit them
Entries ==
  Enumerate(searched.catalog.packages_cache, "package")
    \o Enumerate(searched.catalog.libraries_cache, "library")

\* the entries that passed the gates with a positive score, in that order
Candidates ==
  CollectResults(Entries, Filters, RegexPatternOf(Filters.textQuery))

IsReturned(r) == \E i \in 1..Len(Results) : Results[i] = r

\* where a result stands in the enumeration
Position(r) == CHOOSE k \in 1..Len(Candidates) : Candidates[k] = r

(***************************************************************************)
(* C13.  A search returns at most 10 results, in non-increasing order of   *)
(* relevanceScore, each with a positive score, and they are the top        *)
(* scoring candidates: no candidate left out scores strictly higher than a *)
(* returned one.                                                           *)
(***************************************************************************)
C13_TopResults ==
  SearchRan =>
    /\ Len(Results) <= 10
    /\ Len(Results) = Min(Len(Candidates), 10)
    /\ \A i \in 1..Len(Results) :
         /\ Results[i].relevanceScore > 0
         /\ \E k \in 1..Len(Candidates) : Candidates[k] = Results[i]
         /\ i < Len(Results) =>
              Results[i].relevanceScore >= Results[i + 1].relevanceScore
    /\ \A k \in 1..Len(Candidates) :
         ~IsReturned(Candidates[k]) =>
           \A i \in 1..Len(Results) :
             Candidates[k].relevanceScore <= Results[i].relevanceScore

\* lsp on the catalog of ties: fourteen candidates, ten returned, the
\* library named lsp first although it is enumerated twelfth
C13_Witness ==
  /\ SearchRan
  /\ searched.query = <<"l","s","p">>
  /\ Len(Candidates) = 14
  /\ Len(Results) = 10
  /\ Results[1].name = <<"l","s","p">>
  /\ Results[1].type = "library"
  /\ Results[1].relevanceScore > Results[2].relevanceScore

(***************************************************************************)
(* C14.  Results of equal relevanceScore come in enumeration order: all    *)
(* packages before all libraries, each in repository order and then list   *)
(* order; the cut to 10 keeps the earliest enumerated of the tied ones.    *)
(***************************************************************************)
C14_TiesInEnumerationOrder ==
  SearchRan =>
    /\ \A i, j \in 1..Len(Results) :
         (i < j /\ Results[i].relevanceScore = Results[j].relevanceScore) =>
           /\ Position(Results[i]) < Position(Results[j])
           /\ ~(Results[i].type = "library" /\ Results[j].type = "package")
    /\ \A k \in 1..Len(Candidates) :
         ~IsReturned(Candidates[k]) =>
           \A i \in 1..Len(Results) :
             Results[i].relevanceScore = Candidates[k].relevanceScore =>
               Position(Results[i]) < k

\* lsp on the catalog of ties: the nine tied packages of two repositories
\* are returned in order, the tied libraries after them are cut
C14_Witness ==
  /\ SearchRan
  /\ searched.query = <<"l","s","p">>
  /\ Len(Results) = 10
  /\ Results[2].name = <<"l","s","p","a">>
  /\ Results[2].repository = <<"r","1">>
  /\ Results[10].name = <<"l","s","p","i">>
  /\ Results[10].repository = <<"r","2">>
  /\ \E k \in 1..Len(Candidates) :
       /\ ~IsReturned(Candidates[k])
       /\ Candidates[k].type = "library"
       /\ Candidates[k].relevanceScore = Results[10].relevanceScore

(***************************************************************************)
(* C15.  The filter gate only reduces: with a non-empty text query, the    *)
(* entries a search with an author and/or a label filter returns are among *)
(* those the search with the same text query and no filter returns.        *)
(***************************************************************************)
HasFilter == IsDefined(Filters.author) \/ IsDefined(Filters.label)

\* the search of the text query alone
Unfiltered == searchPackages(Filters.textQuery, searched.catalog, TRUE)

SameEntry(a, b) ==
  a.name = b.name /\ a.repository = b.repository /\ a.type = b.type

C15_FiltersOnlyReduce ==
  (SearchRan /\ HasFilter /\ Filters.textQuery # <<>>) =>
    /\ Unfiltered.ok
    /\ \A i \in 1..Len(Results) :
         \E j \in 1..Len(Unfiltered.results) :
           SameEntry(Results[i], Unfiltered.results[j])

(***************************************************************************)
(* C16.  With a label filter, an entry is rejected unless it is a Package  *)
(* one of whose labels contains the filter value, ignoring case: no        *)
(* Library is among the results of a search with a label filter.           *)
(***************************************************************************)
C16_LabelFilterGate ==
  (SearchRan /\ IsDefined(Filters.label)) =>
    \A i \in 1..Len(Results) :
      /\ Results[i].type = "package"
      /\ IsDefined(Results[i].labels)
      /\ \E k \in 1..Len(ValueOf(Results[i].labels)) :
           includes(toLowerCase(ValueOf(Results[i].labels)[k]),
                    toLowerCase(ValueOf(Filters.label)))

(***************************************************************************)
(* C17.  With an author filter, an entry (a Package with a list of         *)
(* authors, a Library with one author) is rejected unless one of its       *)
(* authors contains the filter value, ignoring case.                       *)
(***************************************************************************)
C17_AuthorFilterGate ==
  (SearchRan /\ IsDefined(Filters.author)) =>
    \A i \in 1..Len(Results) :
      \E k \in 1..Len(Results[i].author.items) :
        includes(toLowerCase(Results[i].author.items[k]),
                 toLowerCase(ValueOf(Filters.author)))

\* Author:JON on the published catalog: the packages of jon are returned,
\* those of the other authors are not, and the filter value is upper case
C17_Witness ==
  /\ SearchRan
  /\ searched.query = <<"A","u","t","h","o","r",":","J","O","N">>
  /\ Filters.author = Some(<<"J","O","N">>)
  /\ Len(Results) > 0
  /\ Len(Results) < Len(Entries)
  /\ \A i \in 1..Len(Results) : Results[i].author.items = <<<<"j","o","n">>>>

(***************************************************************************)
(* C18.  The score of every returned entry is its text score, plus 30 when *)
(* an author filter is present, plus 25 when a label filter is present;    *)
(* the text score of an empty text query is 20.                            *)
(***************************************************************************)
C18_TotalScore ==
  SearchRan =>
    \A i \in 1..Len(Results) :
      Results[i].relevanceScore =
        (IF Filters.textQuery = <<>> THEN 20
         ELSE Relevance(Results[i].name, Results[i].description,
                        Filters.textQuery))
        + (IF IsDefined(Filters.author) THEN 30 ELSE 0)
        + (IF IsDefined(Filters.label) THEN 25 ELSE 0)

(***************************************************************************)
(* C19.  For a text query that is not a regex, ignoring case: the score is *)
(* 100 if the name equals the query, else 50 if it starts with it, else 25 *)
(* if it contains it, else 0; plus 10 if the description contains the      *)
(* query; plus 5 if that sum is positive and the name is shorter than 20.  *)
(***************************************************************************)
Scored == IsDefined(scored.score)

NameEquals(name, term) == toLowerCase(name) = toLowerCase(term)

NameStartsWith(name, term) == startsWith(toLowerCase(name), toLowerCase(term))

NameContains(name, term) == includes(toLowerCase(name), toLowerCase(term))

PlainSum(name, description, term) ==
  (IF NameEquals(name, term) THEN 100
   ELSE IF NameStartsWith(name, term) THEN 50
   ELSE IF NameContains(name, term) THEN 25
   ELSE 0)
  + (IF NameContains(description, term) THEN 10 ELSE 0)

C19_PlainTextScore ==
  (Scored /\ ~isRegexPattern(scored.searchTerm)) =>
    ValueOf(scored.score) =
      PlainSum(scored.name, scored.description, scored.searchTerm)
      + (IF /\ PlainSum(scored.name, scored.description, scored.searchTerm) > 0
            /\ Len(scored.name) < 20
           THEN 5 ELSE 0)

\* a name of 25 characters that contains the query, and a description that
\* contains it: 25 + 10 and no 5
C19_Witness ==
  /\ Scored
  /\ scored.searchTerm = <<"G","I","T">>
  /\ Len(scored.name) = 25
  /\ NameContains(scored.name, scored.searchTerm)
  /\ ~NameStartsWith(scored.name, scored.searchTerm)
  /\ NameContains(scored.description, scored.searchTerm)
  /\ scored.score = Some(35)

(***************************************************************************)
(* C20.  For the same query and description, a name that equals the query  *)
(* scores strictly higher than one that only starts with it, which scores  *)
(* strictly higher than one that only contains it, whatever the lengths.   *)
(***************************************************************************)
OnlyStartsWith(name, term) ==
  NameStartsWith(name, term) /\ ~NameEquals(name, term)

OnlyContains(name, term) ==
  NameContains(name, term) /\ ~NameStartsWith(name, term)

C20_ExactBeatsPrefixBeatsContains ==
  Scored =>
    \A other \in EntryNames :
      /\ (/\ NameEquals(scored.name, scored.searchTerm)
          /\ OnlyStartsWith(other, scored.searchTerm))
           => ValueOf(scored.score)
                > Relevance(other, scored.description, scored.searchTerm)
      /\ (/\ OnlyStartsWith(scored.name, scored.searchTerm)
          /\ OnlyContains(other, scored.searchTerm))
           => ValueOf(scored.score)
                > Relevance(other, scored.description, scored.searchTerm)

(***************************************************************************)
(* C21.  On the non-regex path the score is 0 for every entry whose name   *)
(* and description both do not contain the query, ignoring case: the bonus *)
(* for short names is never granted on its own.                            *)
(***************************************************************************)
C21_NoMatchScoresZero ==
  (/\ Scored
   /\ ~isRegexPattern(scored.searchTerm)
   /\ ~NameContains(scored.name, scored.searchTerm)
   /\ ~NameContains(scored.description, scored.searchTerm))
    => scored.score = Some(0)

\* a three character name scored for a query that occurs nowhere
C21_Witness ==
  /\ Scored
  /\ scored.name = <<"a","b","c">>
  /\ scored.searchTerm = <<"z","z">>
  /\ scored.isRegexQuery = Some(FALSE)
  /\ scored.score = Some(0)

(***************************************************************************)
(* C22.  For a regex query: when the pattern matches the name, 100 if the  *)
(* first match is the whole name, else 50 if the lower-cased name starts   *)
(* with the lower-cased match, else 25; plus 10 when the pattern matches   *)
(* the description; plus 5 when the sum is positive and the name is        *)
(* shorter than 20; 0 when the pattern matches neither.                    *)
(***************************************************************************)
\* the compiled pattern of the query scored
ScoredPattern == ValueOf(RegexPatternOf(scored.searchTerm))

RegexSum(re, name, description) ==
  (IF ~RegExpTest(re, name) THEN 0
   ELSE IF RegExpExec(re, name) = name THEN 100
   ELSE IF startsWith(toLowerCase(name), toLowerCase(RegExpExec(re, name)))
     THEN 50
   ELSE 25)
  + (IF RegExpTest(re, description) THEN 10 ELSE 0)

C22_RegexScore ==
  (Scored /\ isRegexPattern(scored.searchTerm)) =>
    /\ ValueOf(scored.score) =
         RegexSum(ScoredPattern, scored.name, scored.description)
         + (IF /\ RegexSum(ScoredPattern, scored.name, scored.description) > 0
               /\ Len(scored.name) < 20
              THEN 5 ELSE 0)
    /\ (/\ ~RegExpTest(ScoredPattern, scored.name)
        /\ ~RegExpTest(ScoredPattern, scored.description))
         => scored.score = Some(0)

\* /^LSP/ scored for the name LSP: the match is the whole name
C22_Witness ==
  /\ Scored
  /\ scored.searchTerm = <<"/","^","L","S","P","/">>
  /\ scored.name = <<"L","S","P">>
  /\ scored.description = <<"x">>
  /\ scored.score = Some(105)

(***************************************************************************)
(* C23.  A text query is a regex query iff it starts and ends with '/' and *)
(* is longer than 2 characters, or it contains one of                      *)
(* . * + ? ^ $ { } ( ) | [ ] \ : LSP is not, /^LSP/ is, a.b is.            *)
(***************************************************************************)
C23_RegexDetection ==
  Scored =>
    /\ scored.isRegexQuery =
         Some(\/ /\ Len(scored.searchTerm) > 2
                 /\ scored.searchTerm[1] = "/"
                 /\ scored.searchTerm[Len(scored.searchTerm)] = "/"
              \/ \E k \in 1..Len(scored.searchTerm) :
                   scored.searchTerm[k] \in
                     {".", "*", "+", "?", "^", "$", "{", "}", "(", ")", "|",
                      "[", "]", "\\"})
    /\ scored.searchTerm = <<"L","S","P">> => scored.isRegexQuery = Some(FALSE)
    /\ scored.searchTerm = <<"/","^","L","S","P","/">> => scored.isRegexQuery = Some(TRUE)
    /\ scored.searchTerm = <<"a",".","b">> => scored.isRegexQuery = Some(TRUE)

\* two slashes and nothing else: not longer than 2, so not a regex query
C23_Witness ==
  /\ Scored
  /\ scored.searchTerm = <<"/", "/">>
  /\ scored.isRegexQuery = Some(FALSE)

(***************************************************************************)
(* C24.  Scenario: with the packages LSP ("Language Server Protocol        *)
(* client") and LSP-json ("JSON support for LSP"), the query LSP ranks LSP *)
(* first with 105 and LSP-json second with 65: 50 for the name that starts *)
(* with the query, 10 for the description that contains it, 5 for the      *)
(* short name.                                                             *)
(***************************************************************************)
IsLspScenario ==
  /\ SearchRan
  /\ searched.catalog = ScenarioCatalog
  /\ searched.query = <<"L","S","P">>

LspRanking(first, second) ==
  /\ Len(Results) = 2
  /\ Results[1].name = <<"L","S","P">>
  /\ Results[1].relevanceScore = first
  /\ Results[2].name = <<"L","S","P","-","j","s","o","n">>
  /\ Results[2].relevanceScore = second

C24_LspScenario == IsLspScenario => LspRanking(105, 65)

\* the scenario as documented: LSP-json at 55
C24_LspScenarioAsDocumented == IsLspScenario => LspRanking(105, 55)

C24_Witness ==
  /\ IsLspScenario
  /\ Results[2].description = <<"J","S","O","N"," ","s","u","p","p","o","r","t"," ","f","o","r"," ","L","S","P">>
  /\ NameContains(Results[2].description, searched.query)
  /\ Results[2].relevanceScore = 65

(***************************************************************************)
(* C25.  Scenario: for the query "author:alice label:snippets theme" the   *)
(* package ThemePro by "Alice B" with the labels snippets and color passes *)
(* both filters and scores 110: 50 for the name that starts with theme, 5  *)
(* for the short name, 30 for the author filter, 25 for the label filter.  *)
(***************************************************************************)
IsThemeScenario ==
  /\ SearchRan
  /\ searched.catalog = ScenarioCatalog
  /\ searched.query = <<"a","u","t","h","o","r",":","a","l","i","c","e"," ","l","a","b","e","l",":","s","n","i","p","p","e","t","s"," ","t","h","e","m","e">>

ThemeProScores(total) ==
  /\ Len(Results) = 1
  /\ Results[1].name = <<"T","h","e","m","e","P","r","o">>
  /\ Results[1].relevanceScore = total

C25_ThemeScenario == IsThemeScenario => ThemeProScores(110)

\* the scenario as documented: 85, the name counted as containing theme
C25_ThemeScenarioAsDocumented == IsThemeScenario => ThemeProScores(85)

C25_Witness ==
  /\ IsThemeScenario
  /\ Filters.author = Some(<<"a","l","i","c","e">>)
  /\ Filters.label = Some(<<"s","n","i","p","p","e","t","s">>)
  /\ Filters.textQuery = <<"t","h","e","m","e">>
  /\ NameStartsWith(Results[1].name, Filters.textQuery)
  /\ ~NameContains(Results[1].description, Filters.textQuery)
  /\ Results[1].relevanceScore = 110

(***************************************************************************)
(* The answers of the packages and stats commands that are a message.      *)
(***************************************************************************)
\* the response is an ephemeral message with this content and nothing else
IsMessage(response, message) ==
  /\ IsDefined(response)
  /\ ValueOf(response).type = CHANNEL_MESSAGE_WITH_SOURCE
  /\ IsDefined(ValueOf(response).data)
  /\ ValueOf(ValueOf(response).data).content = Some(message)
  /\ ValueOf(ValueOf(response).data).flags = Some(64)
  /\ ~IsDefined(ValueOf(ValueOf(response).data).embeds)
  /\ ~IsDefined(ValueOf(ValueOf(response).data).components)

ShowsMessage(message) == IsMessage(lastResponse, message)

IsPackagesCommand(event) ==
  /\ event.src = "command"
  /\ event.interaction.type = APPLICATION_COMMAND
  /\ event.interaction.name = Some("packages")

\* the query of the command is there and is not blank
HasQuery(event) ==
  /\ IsDefined(event.interaction.query)
  /\ \E k \in 1..Len(ValueOf(event.interaction.query)) :
       ValueOf(event.interaction.query)[k] # " "

\* the text query of the command
TextQueryOf(event) ==
  parseSearchQuery(trim(ValueOf(event.interaction.query))).textQuery

\* the step wrote nothing to the store and created no message
NothingStored ==
  /\ kv' = kv
  /\ msgs' = msgs
  /\ effects'.puts = 0

(***************************************************************************)
(* C26.  A text query that is a regex query and does not compile aborts    *)
(* the search with one validation error: the command is answered with an   *)
(* ephemeral message that names the pattern, no result is shown and no     *)
(* session is stored.                                                      *)
(***************************************************************************)
IsBadPattern(textQuery) ==
  /\ textQuery # <<>>
  /\ isRegexPattern(textQuery)
  /\ RegExpSyntaxError(StripSlashes(textQuery))

C26_BadPatternStep ==
  (/\ IsPackagesCommand(lastEvent')
   /\ HasQuery(lastEvent')
   /\ lastEvent'.fetchOk
   /\ IsBadPattern(TextQueryOf(lastEvent')))
    => /\ IsMessage(lastResponse',
                    Message("Invalid regex pattern: ", TextQueryOf(lastEvent')))
       /\ NothingStored
       /\ effects'.gets = 0

C26_BadPatternAbortsSearch == [][C26_BadPatternStep]_vars

\* label:lsp [a was searched: the answer names [a
C26_Witness ==
  /\ IsPackagesCommand(lastEvent)
  /\ lastEvent.interaction.query = Some(<<"l","a","b","e","l",":","l","s","p"," ","[","a">>)
  /\ ShowsMessage(Message("Invalid regex pattern: ", <<"[", "a">>))
  /\ effects = [fetches |-> 1, gets |-> 0, puts |-> 0]

(***************************************************************************)
(* C27.  A packages command whose query is missing, empty or only          *)
(* whitespace is answered with the ephemeral message "Please provide a     *)
(* search query.", the catalog is not fetched and no session is stored.    *)
(***************************************************************************)
C27_BlankQueryStep ==
  (IsPackagesCommand(lastEvent') /\ ~HasQuery(lastEvent')) =>
    /\ IsMessage(lastResponse', Message("Please provide a search query.", <<>>))
    /\ NothingStored
    /\ effects' = NoEffects

C27_BlankQueryIsRefused == [][C27_BlankQueryStep]_vars

\* a query of one space, sent while the catalog cannot be fetched
C27_Witness ==
  /\ IsPackagesCommand(lastEvent)
  /\ lastEvent.interaction.query = Some(<<" ">>)
  /\ ~lastEvent.fetchOk
  /\ ShowsMessage(Message("Please provide a search query.", <<>>))
  /\ effects = NoEffects

(***************************************************************************)
(* C28.  When the catalog fetch fails during a search or a stats command,  *)
(* the answer is an ephemeral generic failure message with no upstream     *)
(* detail in it, no session is stored, and the catalog is not fetched      *)
(* again.                                                                  *)
(***************************************************************************)
IsStatsCommand(event) ==
  /\ event.src = "command"
  /\ event.interaction.type = APPLICATION_COMMAND
  /\ event.interaction.name = Some("stats")

C28_FetchFailureStep ==
  (/\ ~lastEvent'.fetchOk
   /\ \/ IsPackagesCommand(lastEvent') /\ HasQuery(lastEvent')
      \/ IsStatsCommand(lastEvent'))
    => /\ IsMessage(lastResponse',
            IF IsStatsCommand(lastEvent')
              THEN Message("An error occurred while fetching statistics.", <<>>)
              ELSE Message("Failed to fetch package data. Please try again later.",
                           <<>>))
       /\ NothingStored
       /\ effects' = [fetches |-> 1, gets |-> 0, puts |-> 0]

C28_FetchFailureIsGeneric == [][C28_FetchFailureStep]_vars

\* git was searched while the catalog could not be fetched
C28_Witness ==
  /\ IsPackagesCommand(lastEvent)
  /\ HasQuery(lastEvent)
  /\ ~lastEvent.fetchOk
  /\ ShowsMessage(Message("Failed to fetch package data. Please try again later.",
                          <<>>))
  /\ effects.fetches = 1

(***************************************************************************)
(* The tokens of a query, for the claims about parseSearchQuery.  A query  *)
(* is made of tokens separated by spaces; a token is a key:value token     *)
(* when it is word characters, a colon and at least one more character.    *)
(***************************************************************************)
Parsed == IsDefined(searched.filters)

ParsedFilters == ValueOf(searched.filters)

Tokens == split(searched.query, " ")

ColonAt(token) == indexOf(token, <<":">>)

IsKeyValue(token) ==
  /\ ColonAt(token) >= 1
  /\ Len(token) > ColonAt(token) + 1
  /\ \A k \in 1..ColonAt(token) : IsWordChar(token[k])

TokenKey(token) == SubSeq(token, 1, ColonAt(token))

TokenValue(token) == SubSeq(token, ColonAt(token) + 2, Len(token))

\* every token with a colon in it is a key:value token
IsTokenQuery ==
  \A k \in 1..Len(Tokens) : ColonAt(Tokens[k]) # -1 => IsKeyValue(Tokens[k])

\* the positions of the key:value tokens whose key is this one, in any case
Occurrences(key) ==
  {k \in 1..Len(Tokens) :
     IsKeyValue(Tokens[k]) /\ toLowerCase(TokenKey(Tokens[k])) = key}

\* the value of the last occurrence of the key, undefined when there is none
LastValueOf(key) ==
  IF Occurrences(key) = {} THEN Undefined
  ELSE Some(TokenValue(Tokens[CHOOSE k \in Occurrences(key) :
                                \A j \in Occurrences(key) : k >= j]))

(***************************************************************************)
(* C29.  parseSearchQuery recognizes the keys author and label in any      *)
(* letter case, and when a key occurs several times the filter holds the   *)
(* value of its last occurrence.                                           *)
(***************************************************************************)
C29_LastOccurrenceAnyCase ==
  (Parsed /\ IsTokenQuery) =>
    /\ ParsedFilters.author = LastValueOf(KeyAuthor)
    /\ ParsedFilters.label = LastValueOf(KeyLabel)

\* Author:JON author:tom was parsed: the author filter is tom
C29_Witness ==
  /\ Parsed
  /\ searched.query = <<"A","u","t","h","o","r",":","J","O","N"," ","a","u","t","h","o","r",":","t","o","m">>
  /\ ParsedFilters.author = Some(<<"t","o","m">>)
  /\ Occurrences(KeyAuthor) = {1, 2}

(***************************************************************************)
(* C30.  parseSearchQuery removes only the key:value tokens whose key is   *)
(* author or label: every other token of the query, a key:value token      *)
(* with another key included, is still part of textQuery.                  *)
(***************************************************************************)
IsRecognized(token) ==
  /\ IsKeyValue(token)
  /\ toLowerCase(TokenKey(token)) \in {KeyAuthor, KeyLabel}

C30_OtherKeysStayInText ==
  (Parsed /\ IsTokenQuery) =>
    \A k \in 1..Len(Tokens) :
      ~IsRecognized(Tokens[k]) => includes(ParsedFilters.textQuery, Tokens[k])

\* the tokens without a colon are still part of textQuery
C30_PlainTokensStayInText ==
  (Parsed /\ IsTokenQuery) =>
    \A k \in 1..Len(Tokens) :
      ColonAt(Tokens[k]) = -1 => includes(ParsedFilters.textQuery, Tokens[k])

(***************************************************************************)
(* C31.  The textQuery of parseSearchQuery is trimmed and                  *)
(* whitespace-collapsed: it neither starts nor ends with whitespace and    *)
(* has no two whitespace characters in a row, also when a filter token     *)
(* was removed from between two words.                                     *)
(***************************************************************************)
IsTrimmed(s) == s = <<>> \/ (~IsSpaceChar(s[1]) /\ ~IsSpaceChar(s[Len(s)]))

IsCollapsed(s) ==
  \A k \in 1..(Len(s) - 1) : ~(IsSpaceChar(s[k]) /\ IsSpaceChar(s[k + 1]))

C31_TextQueryCollapsed ==
  Parsed => /\ IsTrimmed(ParsedFilters.textQuery)
            /\ IsCollapsed(ParsedFilters.textQuery)

\* the textQuery neither starts nor ends with whitespace
C31_TextQueryTrimmed == Parsed => IsTrimmed(ParsedFilters.textQuery)

(***************************************************************************)
(* C33.  A search only reads the catalog: when searchPackages returns,     *)
(* every entry of the catalog object, the order of its releases included,  *)
(* is as it was fetched.                                                   *)
(***************************************************************************)
C33_CatalogUnchanged ==
  IsDefined(searched.channelData) =>
    ValueOf(searched.channelData) = searched.catalog

\* the entries in the order the loops visit them, releases as a set
Unordered(channelData) ==
  LET all == Enumerate(channelData.packages_cache, "package")
               \o Enumerate(channelData.libraries_cache, "library")
  IN [k \in 1..Len(all) |->
        [all[k] EXCEPT !.entry.releases =
           {all[k].entry.releases[j] : j \in 1..Len(all[k].entry.releases)}]]

\* the catalog is as it was fetched, the order of the releases aside
C33_CatalogSameButOrder ==
  IsDefined(searched.channelData) =>
    Unordered(ValueOf(searched.channelData)) = Unordered(searched.catalog)

IndexShownBy(slot) == ValueOf(msgs[slot].data.embeds)[1].position - 1

DecodesTo(handle, sid, index) ==
  IF IsNavigation(handle)
    THEN /\ NavSearchId(Remaining(handle)) = sid
         /\ CurrentIndex(Remaining(handle)) = Num(index)
  ELSE IF startsWith(handle, ListPrefix)
    THEN replaceFirst(handle, ListPrefix) = sid
  ELSE /\ startsWith(handle, SelectPrefix)
       /\ replaceFirst(handle, SelectPrefix) = sid

C34_HandlesRoundTrip ==
  \A slot \in 1..Len(msgs) :
    \A c \in 1..Len(ComponentsOf(slot)) :
      DecodesTo(ComponentsOf(slot)[c].custom_id, msgs[slot].sid,
                IndexShownBy(slot))

\* the second message shows the item of index 2 of the session 12345678_k3
C34_Witness ==
  /\ Len(msgs) = 2
  /\ msgs[2].sid = <<"1","2","3","4","5","6","7","8","_","k","3">>
  /\ Len(ComponentsOf(2)) = 3
  /\ IndexShownBy(2) = 2
  /\ ComponentsOf(2)[2].custom_id
       = NextPrefix \o msgs[2].sid \o <<"_", "2">>

(***************************************************************************)
(* C35.  An All Packages event for a live session is answered with the     *)
(* list overview: a summary of the first 5 results and one select menu     *)
(* whose handle carries the session id and whose option number i, one per  *)
(* result and at most 25, encodes name|repository|i of results[i].  The    *)
(* session is left as it was.                                              *)
(***************************************************************************)
IsListEvent(event) ==
  /\ event.interaction.type = MESSAGE_COMPONENT
  /\ IsDefined(event.interaction.custom_id)
  /\ startsWith(ValueOf(event.interaction.custom_id), ListPrefix)

ListedSession(event) ==
  replaceFirst(ValueOf(event.interaction.custom_id), ListPrefix)

\* the response is the overview of these results for this session
IsListOverview(response, sid, results) ==
  /\ IsDefined(response)
  /\ ValueOf(response).type = UPDATE_MESSAGE
  /\ IsDefined(ValueOf(response).data)
  /\ LET data == ValueOf(ValueOf(response).data)
     IN /\ IsDefined(data.embeds)
        /\ Len(ValueOf(data.embeds)) = 1
        /\ ValueOf(data.embeds)[1].kind = "overview"
        /\ ValueOf(data.embeds)[1].listed
             = SubSeq(results, 1, IF Len(results) < 5 THEN Len(results) ELSE 5)
        /\ IsDefined(data.components)
        /\ Len(ValueOf(data.components)) = 1
        /\ Len(ValueOf(data.components)[1].components) = 1
        /\ LET menu == ValueOf(data.components)[1].components[1]
           IN /\ menu.type = SELECT_MENU
              /\ menu.custom_id = SelectPrefix \o sid
              /\ Len(menu.options)
                   = (IF Len(results) < 25 THEN Len(results) ELSE 25)
              /\ \A k \in 1..Len(menu.options) :
                   menu.options[k].value
                     = results[k].name \o <<"|">> \o results[k].repository
                         \o <<"|">> \o NumToString(k - 1)

C35_ListStep ==
  (IsListEvent(lastEvent') /\ IsLive(ListedSession(lastEvent'))) =>
    /\ IsListOverview(lastResponse', ListedSession(lastEvent'),
                      StoredResults(ListedSession(lastEvent')))
    /\ kv' = kv

C35_AllPackagesShowsOverview == [][C35_ListStep]_vars

\* All Packages was pressed on a live session of more than 5 results
C35_Witness ==
  /\ lastEvent.src = "ui"
  /\ IsListEvent(lastEvent)
  /\ IsLive(ListedSession(lastEvent))
  /\ Len(StoredResults(ListedSession(lastEvent))) > 5
  /\ IsListOverview(lastResponse, ListedSession(lastEvent),
                    StoredResults(ListedSession(lastEvent)))

(***************************************************************************)
(* C36.  Choosing option i of the menu shown for a live session shows the  *)
(* detail of results[i] of that session, with Previous and Next handles    *)
(* that carry i, whatever the name and the repository of the result are.   *)
(***************************************************************************)
\* the response is the detail of results[index] of the session, with the
\* navigation handles of index
IsItemDetail(response, sid, results, index) ==
  /\ IsDefined(response)
  /\ ValueOf(response).type = UPDATE_MESSAGE
  /\ IsDefined(ValueOf(response).data)
  /\ LET data == ValueOf(ValueOf(response).data)
     IN /\ IsDefined(data.embeds)
        /\ Len(ValueOf(data.embeds)) = 1
        /\ ValueOf(data.embeds)[1].kind = "detail"
        /\ ValueOf(data.embeds)[1].item = Some(results[index + 1])
        /\ ValueOf(data.embeds)[1].position = index + 1
        /\ IsDefined(data.components)
        /\ Len(ValueOf(data.components)) = 1
        /\ Len(ValueOf(data.components)[1].components) = 3
        /\ ValueOf(data.components)[1].components[1].custom_id
             = PrevPrefix \o sid \o <<"_">> \o NumToString(index)
        /\ ValueOf(data.components)[1].components[2].custom_id
             = NextPrefix \o sid \o <<"_">> \o NumToString(index)
        /\ ValueOf(data.components)[1].components[3].custom_id
             = ListPrefix \o sid

IsChoice(event) ==
  /\ event.src = "ui"
  /\ event.interaction.type = MESSAGE_COMPONENT
  /\ IsDefined(event.interaction.custom_id)
  /\ startsWith(ValueOf(event.interaction.custom_id), SelectPrefix)
  /\ HasSelectedValue(event.interaction)

ChosenSession(event) ==
  replaceFirst(ValueOf(event.interaction.custom_id), SelectPrefix)

\* the event chooses option o of the menu its message shows
ChoosesOption(event, o) ==
  /\ IsChoice(event)
  /\ ComponentsOf(event.slot)[1].type = SELECT_MENU
  /\ o <= Len(ComponentsOf(event.slot)[1].options)
  /\ ComponentsOf(event.slot)[1].options[o].value
       = ValueOf(event.interaction.values)[1]

C36_ChoiceStep ==
  \A o \in 1..MaxResults :
    (ChoosesOption(lastEvent', o) /\ IsLive(ChosenSession(lastEvent'))) =>
      IsItemDetail(lastResponse', ChosenSession(lastEvent'),
                   StoredResults(ChosenSession(lastEvent')), o - 1)

C36_ChoiceShowsItsItem == [][C36_ChoiceStep]_vars

\* the same for the results whose name and repository have no | in them
C36_PlainChoiceStep ==
  \A o \in 1..MaxResults :
    (/\ ChoosesOption(lastEvent', o)
     /\ IsLive(ChosenSession(lastEvent'))
     /\ ~includes(StoredResults(ChosenSession(lastEvent'))[o].name, <<"|">>)
     /\ ~includes(StoredResults(ChosenSession(lastEvent'))[o].repository, <<"|">>))
      => IsItemDetail(lastResponse', ChosenSession(lastEvent'),
                      StoredResults(ChosenSession(lastEvent')), o - 1)

C36_PlainChoiceShowsItsItem == [][C36_PlainChoiceStep]_vars

(***************************************************************************)
(* C37.  A request is handled statelessly: the response to a component     *)
(* event depends on its handle, its values and the session store only.     *)
(* A click that carries the same handle and values as the component event  *)
(* before it, against the same store, gets the same view.                  *)
(***************************************************************************)
C37_RepeatStep ==
  lastEvent'.src = "again" =>
    /\ lastEvent'.interaction.type = MESSAGE_COMPONENT
    /\ lastEvent'.interaction = lastEvent.interaction
    /\ lastResponse' = lastResponse
    /\ kv' = kv

PressesOn(event, prefix) ==
  /\ event.src = "ui"
  /\ event.interaction.type = MESSAGE_COMPONENT
  /\ IsDefined(event.interaction.custom_id)
  /\ startsWith(ValueOf(event.interaction.custom_id), prefix)
  /\ ValueOf(msgs[event.slot].data.embeds)[1].kind = "detail"
  /\ IsLive(msgs[event.slot].sid)

C38_NavigationStep ==
  /\ (/\ PressesOn(lastEvent', NextPrefix)
      /\ IndexShownBy(lastEvent'.slot)
           < Len(StoredResults(msgs[lastEvent'.slot].sid)) - 1)
       => IsItemDetail(lastResponse', msgs[lastEvent'.slot].sid,
                       StoredResults(msgs[lastEvent'.slot].sid),
                       IndexShownBy(lastEvent'.slot) + 1)
  /\ (/\ PressesOn(lastEvent', PrevPrefix)
      /\ IndexShownBy(lastEvent'.slot) > 0)
       => IsItemDetail(lastResponse', msgs[lastEvent'.slot].sid,
                       StoredResults(msgs[lastEvent'.slot].sid),
                       IndexShownBy(lastEvent'.slot) - 1)

C38_NextAndPreviousStep == [][C38_NavigationStep]_vars

\* Previous was pressed on the last item of a session of 7 results, which
\* Next presses had reached: the item before the last is shown
C38_Witness ==
  /\ lastEvent.src = "ui"
  /\ IsDefined(lastEvent.interaction.custom_id)
  /\ IsLive(msgs[lastEvent.slot].sid)
  /\ Len(StoredResults(msgs[lastEvent.slot].sid)) = 7
  /\ ValueOf(lastEvent.interaction.custom_id)
       = PrevPrefix \o msgs[lastEvent.slot].sid \o <<"_", "6">>
  /\ IsItemDetail(lastResponse, msgs[lastEvent.slot].sid,
                  StoredResults(msgs[lastEvent.slot].sid), 5)

(***************************************************************************)
(* C39.  Session isolation.  A search writes the store key of its own      *)
(* session id and no other; a press or a choice on the message of a search *)
(* shows items of the results stored for that search only, with handles of *)
(* that session, and writes nothing, whatever other searches and their     *)
(* events came in between.                                                 *)
(***************************************************************************)
ItemsOf(results) == {results[k] : k \in 1..Len(results)}

\* the keys a command of this user can write
OwnKeys(userId) ==
  {KvKey(GenerateSearchId(userId, random)) : random \in RandomSuffixes}

\* what the view shows belongs to the session sid
ShowsOnlySession(data, sid) ==
  /\ \A e \in 1..Len(ValueOf(data.embeds)) :
       /\ ValueOf(data.embeds)[e].kind = "detail"
            => /\ IsLive(sid)
               /\ ValueOf(ValueOf(data.embeds)[e].item)
                    \in ItemsOf(StoredResults(sid))
       /\ ValueOf(data.embeds)[e].kind = "overview"
            => /\ IsLive(sid)
               /\ ItemsOf(ValueOf(data.embeds)[e].listed)
                    \subseteq ItemsOf(StoredResults(sid))
  /\ \A r \in 1..Len(ValueOf(data.components)) :
       \A c \in 1..Len(ValueOf(data.components)[r].components) :
         DecodesTo(ValueOf(data.components)[r].components[c].custom_id, sid,
                   ValueOf(data.embeds)[1].position - 1)

C39_IsolationStep ==
  /\ lastEvent'.src = "command" =>
       /\ \A key \in DOMAIN kv : key \in DOMAIN kv' /\ kv'[key] = kv[key]
       /\ DOMAIN kv' \ DOMAIN kv \subseteq OwnKeys(lastEvent'.interaction.userId)
  /\ (lastEvent'.src \in {"ui", "again"} /\ IsDefined(lastResponse')) =>
       /\ kv' = kv
       /\ ShowsOnlySession(ValueOf(ValueOf(lastResponse').data),
                           msgs[lastEvent'.slot].sid)

C39_SessionIsolation == [][C39_IsolationStep]_vars

\* an item of the first search is shown on its message while the session
\* of a later search with other results is live
C39_Witness ==
  /\ lastEvent.src = "ui"
  /\ lastEvent.slot = 1
  /\ Len(msgs) = 2
  /\ IsLive(msgs[1].sid)
  /\ IsLive(msgs[2].sid)
  /\ StoredResults(msgs[1].sid) # StoredResults(msgs[2].sid)
  /\ ShowsDetail
  /\ ValueOf(LastEmbeds[1].item) \in ItemsOf(StoredResults(msgs[1].sid))
  /\ ValueOf(LastEmbeds[1].item) \notin ItemsOf(StoredResults(msgs[2].sid))

(***************************************************************************)
(* C40.  The response of a command carries handles of a session only when  *)
(* the store write of that session has completed: every handle it emits    *)
(* names a session that is in the store.  When the write fails, the        *)
(* command is answered with an ephemeral error message without handles.    *)
(***************************************************************************)
\* the handles of a response: the custom_id of each of its components
HandlesOf(response) ==
  IF /\ IsDefined(response)
     /\ IsDefined(ValueOf(response).data)
     /\ IsDefined(ValueOf(ValueOf(response).data).components)
    THEN UNION {
           {ValueOf(ValueOf(ValueOf(response).data).components)[r].components[c].custom_id :
              c \in 1..Len(ValueOf(ValueOf(ValueOf(response).data).components)[r].components)}
           : r \in 1..Len(ValueOf(ValueOf(ValueOf(response).data).components)) }
    ELSE {}

\* the session a handle names
SessionOfHandle(handle) ==
  IF IsNavigation(handle) THEN NavSearchId(Remaining(handle))
  ELSE IF startsWith(handle, ListPrefix) THEN replaceFirst(handle, ListPrefix)
  ELSE replaceFirst(handle, SelectPrefix)

\* the response is an ephemeral message and nothing else
IsEphemeralMessage(response) ==
  /\ IsDefined(response)
  /\ ValueOf(response).type = CHANNEL_MESSAGE_WITH_SOURCE
  /\ IsDefined(ValueOf(response).data)
  /\ IsDefined(ValueOf(ValueOf(response).data).content)
  /\ ValueOf(ValueOf(response).data).flags = Some(64)
  /\ ~IsDefined(ValueOf(ValueOf(response).data).embeds)

C40_CreationStep ==
  lastEvent'.src = "command" =>
    /\ \A handle \in HandlesOf(lastResponse') :
         /\ KvKey(SessionOfHandle(handle)) \in DOMAIN kv'
         /\ effects'.puts = 1
    /\ (~lastEvent'.kvOk /\ effects'.puts > 0) =>
         /\ IsEphemeralMessage(lastResponse')
         /\ HandlesOf(lastResponse') = {}
         /\ kv' = kv
         /\ msgs' = msgs

C40_HandlesOnlyAfterStore == [][C40_CreationStep]_vars

\* a search with several results was answered while the store was down
C40_Witness ==
  /\ lastEvent.src = "command"
  /\ ~lastEvent.kvOk
  /\ effects.puts = 1
  /\ IsEphemeralMessage(lastResponse)
  /\ HandlesOf(lastResponse) = {}
  /\ kv = <<>>

\* a search was answered with handles of the session it has just stored
C40_StoredWitness ==
  /\ lastEvent.src = "command"
  /\ effects.puts = 1
  /\ HandlesOf(lastResponse) # {}
  /\ \A handle \in HandlesOf(lastResponse) : IsLive(SessionOfHandle(handle))

=============================================================================
